---- MODULE Spec2Model ----
(***************************************************************************)
(* A model of pkgdmp's symbol filters (filter.go), its declaration         *)
(* entities (entities.go) and its extractor Parser.Package (parse.go).     *)
(*                                                                         *)
(* Identifiers are sequences of one-character strings so that the export   *)
(* test, which looks at the first character, is computed and not assumed.  *)
(* A Go panic is an outcome of its own: every operator that can panic      *)
(* returns a record [panic, val].                                          *)
(***************************************************************************)
EXTENDS Integers, Sequences, FiniteSets, TLC

VARIABLES
    parser,   \* the *Parser: [filters, fullDocs, noDocs]
    dPkg,     \* the *doc.Package handed to Parser.Package
    pkg,      \* the *Package being returned
    pc,       \* "ready" | "done" | "panic" | "printed"
    sym,      \* the Symbol handed to Parser.includeSymbol
    verdict,  \* what the filters and includeSymbol answered for sym
    arg,      \* the argument of a function called on its own
    out,      \* what it returned; a text is a sequence of strings to be read joined
    stdout    \* the text written to os.Stdout

vars == <<parser, dPkg, pkg, pc, sym, verdict, arg, out, stdout>>

(***************************************************************************)
(* Bounds of the model.                                                    *)
(***************************************************************************)
MaxFilters == 2
MaxFields == 3

(***************************************************************************)
(* filter.go: FilterAction and SymbolType.                                 *)
(***************************************************************************)
Exclude == "Exclude"
Include == "Include"
FilterAction == {Exclude, Include}

SymbolUnknown == "SymbolUnknown"
SymbolPackage == "SymbolPackage"
SymbolConst == "SymbolConst"
SymbolIdentType == "SymbolIdentType"
SymbolFuncType == "SymbolFuncType"
SymbolStructType == "SymbolStructType"
SymbolInterfaceType == "SymbolInterfaceType"
SymbolMapType == "SymbolMapType"
SymbolChanType == "SymbolChanType"
SymbolArrayType == "SymbolArrayType"
SymbolFunc == "SymbolFunc"
SymbolStructField == "SymbolStructField"
SymbolParamField == "SymbolParamField"
SymbolResultField == "SymbolResultField"
SymbolReceiverField == "SymbolReceiverField"

SymbolType ==
    { SymbolUnknown, SymbolPackage, SymbolConst, SymbolIdentType, SymbolFuncType,
      SymbolStructType, SymbolInterfaceType, SymbolMapType, SymbolChanType,
      SymbolArrayType, SymbolFunc, SymbolStructField, SymbolParamField,
      SymbolResultField, SymbolReceiverField }

unfilterableMapNoPackage ==
    { SymbolParamField, SymbolResultField, SymbolReceiverField }

unfilterableMap ==
    { SymbolPackage, SymbolParamField, SymbolResultField, SymbolReceiverField }

(***************************************************************************)
(* Results of operations that may panic.                                   *)
(***************************************************************************)
Ok(v) == [panic |-> FALSE, val |-> v]
Panic == [panic |-> TRUE, val |-> FALSE]

\* A panic of r unwinds through the caller; otherwise the caller goes on
\* with the value returned.
Bind(r, F(_)) == IF r.panic THEN Panic ELSE F(r.val)

\* The sequences of ss one after the other.
RECURSIVE Concat(_)
Concat(ss) == IF Len(ss) = 0 THEN <<>> ELSE Head(ss) \o Concat(Tail(ss))

(***************************************************************************)
(* helpers.go: isExportedIdent.  strings.ToUpper on the first character;   *)
(* name[:1] of an empty string is a slice-bounds panic.                    *)
(***************************************************************************)
ToUpper(c) ==
    CASE c = "a" -> "A"
      [] c = "b" -> "B"
      [] c = "c" -> "C"
      [] c = "x" -> "X"
      [] OTHER -> c

isExportedIdentWholeName(name) ==
    IF Len(name) = 0 THEN Panic ELSE Ok([i \in 1..Len(name) |-> ToUpper(name[i])] = name)

isExportedIdent(name) ==
    IF Len(name) = 0 THEN Panic ELSE Ok(ToUpper(name[1]) = name[1])

(***************************************************************************)
(* entities.go: the entities that implement Symbol.  One record shape for  *)
(* all of them: ent names the Go type, Names holds Name or Names, Type is  *)
(* TypeDef.Type, symbolType is Field.symbolType, HasRecv says whether      *)
(* Func.Receiver is set.                                                   *)
(***************************************************************************)
MkSymbol(ent, names, type, st, recv) ==
    [ent |-> ent, Names |-> names, Type |-> type, symbolType |-> st, HasRecv |-> recv]

PackageSym(name) == MkSymbol("Package", <<name>>, "", SymbolUnknown, FALSE)
ConstSym(names) == MkSymbol("Const", names, "", SymbolUnknown, FALSE)
FuncSym(name, recv) == MkSymbol("Func", <<name>>, "", SymbolUnknown, recv)
TypeDefSym(name, type) == MkSymbol("TypeDef", <<name>>, type, SymbolUnknown, FALSE)
FieldSym(names, st) == MkSymbol("Field", names, "", st, FALSE)

\* Package.Ident, Const.Ident, Func.Ident, TypeDef.Ident, Field.Ident.
\* Only Field.Ident guards against an empty Names.
Ident(s) ==
    IF s.ent = "Field"
    THEN (IF Len(s.Names) = 0 THEN Ok(<<>>) ELSE Ok(s.Names[1]))
    ELSE (IF Len(s.Names) = 0 THEN Panic ELSE Ok(s.Names[1]))

\* Package.IsExported is always true; the others test the first name, and
\* Field.IsExported indexes Names[0] without a length check.
IsExported(s) ==
    IF s.ent = "Package"
    THEN Ok(TRUE)
    ELSE (IF Len(s.Names) = 0 THEN Panic ELSE isExportedIdent(s.Names[1]))

TypeDefSymbolType(type) ==
    CASE type = "struct" -> SymbolStructType
      [] type = "interface" -> SymbolInterfaceType
      [] type = "func" -> SymbolFuncType
      [] type = "map" -> SymbolMapType
      [] type = "chan" -> SymbolChanType
      [] type = "array" -> SymbolArrayType
      [] OTHER -> SymbolIdentType

\* Func.SymbolType returns SymbolFunc whether or not the receiver is set.
SymbolTypeOf(s) ==
    CASE s.ent = "Package" -> SymbolPackage
      [] s.ent = "Const" -> SymbolConst
      [] s.ent = "Func" -> SymbolFunc
      [] s.ent = "TypeDef" -> TypeDefSymbolType(s.Type)
      [] OTHER -> s.symbolType

(***************************************************************************)
(* filter.go: the four filters.  A filter is a record: kind names the      *)
(* constructor, stMap / pkgMap are the sets built from the arguments and   *)
(* pattern is the compiled expression.                                     *)
(***************************************************************************)
NoPattern == [anchored |-> FALSE, lit |-> <<>>]

FilterUnexported(action) ==
    [kind |-> "filterUnexported", action |-> action, stMap |-> {},
     pattern |-> NoPattern, pkgMap |-> {}]

FilterSymbolTypes(action, types) ==
    [kind |-> "filterSymbolTypes", action |-> action, stMap |-> types,
     pattern |-> NoPattern, pkgMap |-> {}]

FilterMatchingIdents(action, p) ==
    [kind |-> "filterMatchingIdents", action |-> action, stMap |-> {},
     pattern |-> p, pkgMap |-> {}]

FilterPackages(action, names) ==
    [kind |-> "filterPackages", action |-> action, stMap |-> {},
     pattern |-> NoPattern, pkgMap |-> names]

isUnfilterableNoPackage(s) == SymbolTypeOf(s) \in unfilterableMapNoPackage

isUnfilterable(s) == SymbolTypeOf(s) \in unfilterableMap

\* regexp.MatchString for the expressions of the model: a literal, or a
\* literal anchored at the start with ^ .  Unanchored expressions match
\* anywhere in the identifier.
IsPrefixAt(lit, s, i) ==
    /\ i + Len(lit) - 1 <= Len(s)
    /\ \A k \in 1..Len(lit) : s[i + k - 1] = lit[k]

MatchString(p, s) ==
    IF p.anchored
    THEN IsPrefixAt(p.lit, s, 1)
    ELSE \E i \in 1..(Len(s) + 1) : IsPrefixAt(p.lit, s, i)

filterUnexportedIncludeIgnoresAction(f, s) ==
    IF isUnfilterable(s) THEN Ok(TRUE) ELSE IsExported(s)

filterUnexportedInclude(f, s) ==
    IF isUnfilterable(s)
    THEN Ok(TRUE)
    ELSE (IF f.action = Include THEN Ok(TRUE) ELSE IsExported(s))

filterSymbolTypesIncludeSwapped(f, s) ==
    IF isUnfilterable(s)
    THEN Ok(TRUE)
    ELSE (IF f.action = Include
          THEN Ok(SymbolTypeOf(s) \notin f.stMap)
          ELSE Ok(SymbolTypeOf(s) \in f.stMap))

filterSymbolTypesInclude(f, s) ==
    IF isUnfilterable(s)
    THEN Ok(TRUE)
    ELSE (IF f.action = Include
          THEN Ok(SymbolTypeOf(s) \in f.stMap)
          ELSE Ok(SymbolTypeOf(s) \notin f.stMap))

filterMatchingIdentsIncludeIgnoresAction(f, s) ==
    IF isUnfilterable(s)
    THEN Ok(TRUE)
    ELSE (IF Ident(s).panic THEN Panic ELSE Ok(MatchString(f.pattern, Ident(s).val)))

filterMatchingIdentsInclude(f, s) ==
    IF isUnfilterable(s)
    THEN Ok(TRUE)
    ELSE (IF Ident(s).panic
          THEN Panic
          ELSE (IF f.action = Include
                THEN Ok(MatchString(f.pattern, Ident(s).val))
                ELSE Ok(~MatchString(f.pattern, Ident(s).val))))

filterPackagesIncludeUnfilterable(f, s) ==
    IF isUnfilterable(s) \/ SymbolTypeOf(s) # SymbolPackage
    THEN Ok(TRUE)
    ELSE (IF f.action = Include
          THEN Ok(Ident(s).val \in f.pkgMap)
          ELSE Ok(Ident(s).val \notin f.pkgMap))

filterPackagesInclude(f, s) ==
    IF SymbolTypeOf(s) # SymbolPackage
    THEN Ok(TRUE)
    ELSE (IF Ident(s).panic
          THEN Panic
          ELSE (IF f.action = Include
                THEN Ok(Ident(s).val \in f.pkgMap)
                ELSE Ok(Ident(s).val \notin f.pkgMap)))

\* SymbolFilter.Include, dispatched on the filter's type.
FilterInclude(f, s) ==
    CASE f.kind = "filterUnexported" -> filterUnexportedInclude(f, s)
      [] f.kind = "filterSymbolTypes" -> filterSymbolTypesInclude(f, s)
      [] f.kind = "filterMatchingIdents" -> filterMatchingIdentsInclude(f, s)
      [] OTHER -> filterPackagesInclude(f, s)

(***************************************************************************)
(* parse.go: Parser.includeSymbol.  The loop over p.filters, returning     *)
(* false at the first filter that answers false.                           *)
(***************************************************************************)
RECURSIVE includeSymbolFrom(_, _, _)
includeSymbolFrom(fs, s, i) ==
    IF i > Len(fs)
    THEN Ok(TRUE)
    ELSE Bind(FilterInclude(fs[i], s),
              LAMBDA inc : IF ~inc THEN Ok(FALSE) ELSE includeSymbolFrom(fs, s, i + 1))

includeSymbolFirstOnly(fs, s) ==
    IF Len(fs) = 0 THEN Ok(TRUE) ELSE FilterInclude(fs[1], s)

includeSymbol(fs, s) == includeSymbolFrom(fs, s, 1)

(***************************************************************************)
(* helpers.go: mkComment.  A doc string is a sequence of strings, each a   *)
(* run of non-space characters, " " or "\n".                               *)
(***************************************************************************)
IsSpace(t) == t \in {" ", "\n"}

RECURSIVE TrimLeft(_)
TrimLeft(s) == IF Len(s) # 0 /\ IsSpace(s[1]) THEN TrimLeft(Tail(s)) ELSE s

RECURSIVE TrimRight(_)
TrimRight(s) ==
    IF Len(s) # 0 /\ IsSpace(s[Len(s)]) THEN TrimRight(SubSeq(s, 1, Len(s) - 1)) ELSE s

\* strings.TrimSpace.
TrimSpace(s) == TrimRight(TrimLeft(s))

\* strings.Split(s, "\n"): the lines of s; cur is the line being read.
RECURSIVE SplitLinesFrom(_, _, _)
SplitLinesFrom(s, i, cur) ==
    IF i > Len(s) THEN <<cur>>
    ELSE IF s[i] = "\n" THEN <<cur>> \o SplitLinesFrom(s, i + 1, <<>>)
    ELSE SplitLinesFrom(s, i + 1, Append(cur, s[i]))

SplitLines(s) == SplitLinesFrom(s, 1, <<>>)

\* strings.Fields: the words of s; word is the word being read ("" if none).
RECURSIVE FieldsFrom(_, _, _)
FieldsFrom(s, i, word) ==
    IF i > Len(s) THEN (IF word = "" THEN <<>> ELSE <<word>>)
    ELSE IF IsSpace(s[i])
    THEN (IF word = "" THEN <<>> ELSE <<word>>) \o FieldsFrom(s, i + 1, "")
    ELSE FieldsFrom(s, i + 1, word \o s[i])

Fields(s) == FieldsFrom(s, 1, "")

\* The lines of the format string of fmt.Fprintf written as strings; the
\* number of bytes written is the sum of their lengths.
RECURSIVE TextLen(_)
TextLen(text) == IF Len(text) = 0 THEN 0 ELSE Len(text[1]) + TextLen(Tail(text))

LineWidth == 80

\* The loop of mkComment over the words from word number i on; b is the
\* strings.Builder and lineLen the counter of the code.
RECURSIVE mkCommentWordsFrom(_, _, _, _)
mkCommentWordsFrom(words, i, b, lineLen) ==
    IF i > Len(words)
    THEN b \o <<"\n">>
    ELSE IF lineLen + Len(words[i]) + 1 < LineWidth
    THEN mkCommentWordsFrom(words, i + 1, b \o <<words[i], " ">>,
                                  lineLen + TextLen(<<words[i], " ">>))
    ELSE mkCommentWordsFrom(words, i + 1, b \o <<"\n// ", words[i], " ">>,
                                  TextLen(<<"\n// ", words[i], " ">>))

mkComment(s) ==
    IF Len(TrimSpace(s)) = 0
    THEN <<>>
    ELSE IF Len(SplitLines(TrimSpace(s))) > 1
    THEN Concat([k \in 1..Len(SplitLines(TrimSpace(s))) |->
                    <<"// ">> \o SplitLines(TrimSpace(s))[k] \o <<"\n">>])
    ELSE mkCommentWordsFrom(Fields(TrimSpace(s)), 1, <<"// ">>, TextLen(<<"// ">>))

\* strings.Join of texts.
RECURSIVE JoinText(_, _)
JoinText(texts, sep) ==
    IF Len(texts) = 0 THEN <<>>
    ELSE IF Len(texts) = 1 THEN texts[1]
    ELSE texts[1] \o <<sep>> \o JoinText(Tail(texts), sep)

(***************************************************************************)
(* parse.go: the extractor.  The input is what go/doc hands over:          *)
(*   ast.Field     [Names, Type]                                           *)
(*   ast.ValueSpec [Names, Values, HasType, Pos], Values a list of          *)
(*                 expression shapes ("BasicLit", "CallExpr", "Ident", or  *)
(*                 another), Pos the identity of the node (Const.valSpec   *)
(*                 points at it)                                           *)
(*   doc.Value     [Specs]                                                 *)
(*   doc.Func      [Name, Recv, Params, Results]                           *)
(*   doc.Type      [Name, Expr, Consts, Funcs, Methods], Expr the type     *)
(*                 expression [shape, Ident, Fields, Methods, Params,      *)
(*                 Results]                                                *)
(*   doc.Package   [Name, Consts, Types, Funcs]                            *)
(* Doc and Comment are doc strings, the empty one for a nil comment group. *)
(* Every parse operator takes the parser psr.                              *)
(***************************************************************************)
identNames(idents) == idents

\* strings.TrimPrefix.
TrimPrefix(s, prefix) ==
    IF Len(s) >= Len(prefix) /\ SubSeq(s, 1, Len(prefix)) = prefix
    THEN SubSeq(s, Len(prefix) + 1, Len(s))
    ELSE s

\* go/doc: the first sentence of a text ends before the first space that
\* follows a full stop (the words of the inputs end in lower case).
RECURSIVE firstSentenceFrom(_, _)
firstSentenceFrom(s, i) ==
    IF i > Len(s) THEN s
    ELSE IF i > 1 /\ IsSpace(s[i]) /\ s[i - 1] = "." THEN SubSeq(s, 1, i - 1)
    ELSE firstSentenceFrom(s, i + 1)

\* The first paragraph of a text ends before the first blank line.
RECURSIVE firstParagraphFrom(_, _)
firstParagraphFrom(s, i) ==
    IF i >= Len(s) THEN s
    ELSE IF s[i] = "\n" /\ s[i + 1] = "\n" THEN SubSeq(s, 1, i - 1)
    ELSE firstParagraphFrom(s, i + 1)

\* doc.Package.Synopsis: the first sentence of the first paragraph on one
\* line, its words a space apart (no input starts with a word for which
\* go/doc returns the empty synopsis, such as "Copyright").
Synopsis(text) ==
    JoinText([k \in 1..Len(Fields(firstParagraphFrom(firstSentenceFrom(text, 1), 1))) |->
                 <<Fields(firstParagraphFrom(firstSentenceFrom(text, 1), 1))[k]>>], " ")

CommentMarker == <<"//", " ">>

mkDocFullDocsFirst(psr, fullDoc) ==
    IF psr.fullDocs THEN TrimPrefix(TrimSpace(TrimSpace(fullDoc)), CommentMarker)
    ELSE IF psr.noDocs THEN <<>>
    ELSE Synopsis(TrimPrefix(TrimSpace(TrimSpace(fullDoc)), CommentMarker))

\* Parser.mkDoc: noDocs is looked at before fullDocs.
mkDoc(psr, fullDoc) ==
    IF psr.noDocs THEN <<>>
    ELSE IF psr.fullDocs THEN TrimPrefix(TrimSpace(TrimSpace(fullDoc)), CommentMarker)
    ELSE Synopsis(TrimPrefix(TrimSpace(TrimSpace(fullDoc)), CommentMarker))

\* parseField: Doc and Comment stay empty for a nil comment group.
parseField(psr, af, st) ==
    [Names |-> identNames(af.Names), Type |-> af.Type, symbolType |-> st,
     Doc |-> IF Len(af.Doc) # 0 THEN mkDoc(psr, af.Doc) ELSE <<>>,
     Comment |-> IF Len(af.Comment) # 0 THEN mkDoc(psr, af.Comment) ELSE <<>>]

FieldAsSymbol(pf) == FieldSym(pf.Names, pf.symbolType)

parseFieldListFromKeepsAll(psr, fl, st, i, res) ==
    Ok(res \o [k \in 1..(Len(fl) - i + 1) |-> parseField(psr, fl[i + k - 1], st)])

\* The loop of parseFieldList from ast.Field number i on; res is the slice
\* built so far.
RECURSIVE parseFieldListFrom(_, _, _, _, _)
parseFieldListFrom(psr, fl, st, i, res) ==
    IF i > Len(fl)
    THEN Ok(res)
    ELSE LET pf == parseField(psr, fl[i], st)
         IN  Bind(includeSymbol(psr.filters, FieldAsSymbol(pf)),
                  LAMBDA inc :
                      IF ~inc THEN parseFieldListFrom(psr, fl, st, i + 1, res)
                      ELSE parseFieldListFrom(psr, fl, st, i + 1, Append(res, pf)))

RECURSIVE parseFieldListStopAtFirst(_, _, _, _, _)
parseFieldListStopAtFirst(psr, fl, st, i, res) ==
    IF i > Len(fl)
    THEN Ok(res)
    ELSE LET pf == parseField(psr, fl[i], st)
         IN  Bind(includeSymbol(psr.filters, FieldAsSymbol(pf)),
                  LAMBDA inc :
                      IF ~inc THEN Ok(res)
                      ELSE parseFieldListStopAtFirst(psr, fl, st, i + 1, Append(res, pf)))

parseFieldListBreaks(psr, fl, st) == parseFieldListStopAtFirst(psr, fl, st, 1, <<>>)

parseFieldList(psr, fl, st) == parseFieldListFrom(psr, fl, st, 1, <<>>)

\* Func.Receiver is a pointer: the empty sequence is nil.
parseFunc(psr, df) ==
    LET recv == IF Len(df.Recv) # 0
                THEN <<parseField(psr, df.Recv[1], SymbolReceiverField)>>
                ELSE <<>>
    IN  Bind(parseFieldList(psr, df.Params, SymbolParamField),
             LAMBDA params :
        Bind(parseFieldList(psr, df.Results, SymbolResultField),
             LAMBDA results :
                 Ok([Name |-> df.Name, Doc |-> mkDoc(psr, df.Doc), Comment |-> <<>>,
                     Receiver |-> recv, Params |-> params, Results |-> results,
                     funcKw |-> TRUE])))

FuncAsSymbol(fn) == FuncSym(fn.Name, Len(fn.Receiver) # 0)

\* The value loop of parseConst: an expression that is no basic literal,
\* call or identifier panics.
valueShapes == {"BasicLit", "CallExpr", "Ident"}

parseValues(vs) ==
    IF \E k \in 1..Len(vs.Values) : vs.Values[k] \notin valueShapes
    THEN Panic
    ELSE Ok([k \in 1..Len(vs.Values) |->
                [Shape |-> vs.Values[k],
                 Specific |-> (vs.Values[k] = "CallExpr" \/ vs.HasType)]])

ConstAsSymbol(c) == ConstSym(c.Names)

\* The loop of parseConst from value spec number i on; cg is the ConstGroup
\* and consts its Consts so far.
RECURSIVE parseConstFrom(_, _, _, _, _)
parseConstFrom(psr, cg, specs, i, consts) ==
    IF i > Len(specs)
    THEN Ok([cg EXCEPT !.Consts = consts])
    ELSE LET c == [Names |-> identNames(specs[i].Names), Values |-> <<>>,
                   valSpec |-> specs[i].Pos]
         IN  Bind(includeSymbol(psr.filters, ConstAsSymbol(c)),
                  LAMBDA inc :
                      IF ~inc THEN parseConstFrom(psr, cg, specs, i + 1, consts)
                      ELSE Bind(parseValues(specs[i]),
                                LAMBDA vals :
                                    parseConstFrom(psr, cg, specs, i + 1,
                                        Append(consts, [c EXCEPT !.Values = vals]))))

parseConst(psr, dVal) ==
    parseConstFrom(psr, [Doc |-> mkDoc(psr, dVal.Doc), Consts |-> <<>>], dVal.Specs, 1, <<>>)

\* The loop of parseConsts from group number i on; p is the *Package.
RECURSIVE parseConstsFrom(_, _, _, _)
parseConstsFrom(psr, p, cnsts, i) ==
    IF i > Len(cnsts)
    THEN Ok(p)
    ELSE Bind(parseConst(psr, cnsts[i]),
              LAMBDA cg :
                  IF Len(cg.Consts) = 0 THEN parseConstsFrom(psr, p, cnsts, i + 1)
                  ELSE parseConstsFrom(psr, [p EXCEPT !.Consts = Append(@, cg)],
                                       cnsts, i + 1))

RECURSIVE parseConstsKeepEmptyFrom(_, _, _, _)
parseConstsKeepEmptyFrom(psr, p, cnsts, i) ==
    IF i > Len(cnsts)
    THEN Ok(p)
    ELSE Bind(parseConst(psr, cnsts[i]),
              LAMBDA cg :
                  parseConstsKeepEmptyFrom(psr, [p EXCEPT !.Consts = Append(@, cg)],
                                           cnsts, i + 1))

parseConstsKeepEmpty(psr, p, cnsts) == parseConstsKeepEmptyFrom(psr, p, cnsts, 1)

parseConsts(psr, p, cnsts) == parseConstsFrom(psr, p, cnsts, 1)

\* The loop of parseFuncs from function number i on.
RECURSIVE parseFuncsFrom(_, _, _, _)
parseFuncsFrom(psr, p, fns, i) ==
    IF i > Len(fns)
    THEN Ok(p)
    ELSE Bind(parseFunc(psr, fns[i]),
              LAMBDA pfn :
         Bind(includeSymbol(psr.filters, FuncAsSymbol(pfn)),
              LAMBDA inc :
                  IF ~inc THEN parseFuncsFrom(psr, p, fns, i + 1)
                  ELSE parseFuncsFrom(psr, [p EXCEPT !.Funcs = Append(@, pfn)],
                                      fns, i + 1)))

parseFuncs(psr, p, fns) == parseFuncsFrom(psr, p, fns, 1)

\* The Func of one entry of an interface's method list; m.Names[0] of an
\* entry without names is an index out of range.
interfaceMethod(psr, m) ==
    IF Len(m.Names) = 0
    THEN Panic
    ELSE Bind(parseFieldList(psr, m.Params, SymbolParamField),
              LAMBDA params :
         Bind(parseFieldList(psr, m.Results, SymbolResultField),
              LAMBDA results :
                  Ok([Name |-> m.Names[1],
                      Doc |-> IF Len(m.Doc) # 0 THEN mkDoc(psr, m.Doc) ELSE <<>>,
                      Comment |-> IF Len(m.Comment) # 0 THEN mkDoc(psr, m.Comment) ELSE <<>>,
                      Receiver |-> <<>>, Params |-> params, Results |-> results,
                      funcKw |-> FALSE])))

\* The interface case of parseTypes: one Func per entry of the method list
\* whose type is a function type; no call of includeSymbol on the Func.
RECURSIVE parseInterfaceMethodsFrom(_, _, _, _)
parseInterfaceMethodsFrom(psr, ml, i, res) ==
    IF i > Len(ml)
    THEN Ok(res)
    ELSE IF ~ml[i].IsFunc
    THEN parseInterfaceMethodsFrom(psr, ml, i + 1, res)
    ELSE Bind(interfaceMethod(psr, ml[i]),
              LAMBDA f : parseInterfaceMethodsFrom(psr, ml, i + 1, Append(res, f)))

RECURSIVE parseInterfaceMethodsFilteredFrom(_, _, _, _)
parseInterfaceMethodsFilteredFrom(psr, ml, i, res) ==
    IF i > Len(ml)
    THEN Ok(res)
    ELSE IF ~ml[i].IsFunc
    THEN parseInterfaceMethodsFilteredFrom(psr, ml, i + 1, res)
    ELSE Bind(interfaceMethod(psr, ml[i]),
              LAMBDA f :
         Bind(includeSymbol(psr.filters, FuncSym(f.Name, FALSE)),
              LAMBDA inc :
                  IF ~inc THEN parseInterfaceMethodsFilteredFrom(psr, ml, i + 1, res)
                  ELSE parseInterfaceMethodsFilteredFrom(psr, ml, i + 1, Append(res, f))))

parseInterfaceMethodsFiltered(psr, ml) == parseInterfaceMethodsFilteredFrom(psr, ml, 1, <<>>)

parseInterfaceMethods(psr, ml) == parseInterfaceMethodsFrom(psr, ml, 1, <<>>)

\* The type switch of parseTypes.  known is false in the default case, in
\* which the loop continues without a TypeDef.
typeShapes == {"Ident", "StructType", "InterfaceType", "FuncType", "MapType",
               "ChanType", "ArrayType"}

parseTypeExpr(psr, name, doc, e) ==
    LET td == [Type |-> "", Name |-> name, Doc |-> mkDoc(psr, doc),
               Fields |-> <<>>, Methods |-> <<>>,
               Params |-> <<>>, Results |-> <<>>, Key |-> "", Value |-> "",
               Dir |-> "", Elt |-> "", Len |-> ""]
    IN  CASE e.shape = "Ident" ->
               Ok([known |-> TRUE, td |-> [td EXCEPT !.Type = e.Ident]])
          [] e.shape = "StructType" ->
               Bind(parseFieldList(psr, e.Fields, SymbolStructField),
                    LAMBDA fields :
                        Ok([known |-> TRUE,
                            td |-> [td EXCEPT !.Type = "struct", !.Fields = fields]]))
          [] e.shape = "InterfaceType" ->
               Bind(parseInterfaceMethods(psr, e.Methods),
                    LAMBDA methods :
                        Ok([known |-> TRUE,
                            td |-> [td EXCEPT !.Type = "interface", !.Methods = methods]]))
          [] e.shape = "FuncType" ->
               Bind(parseFieldList(psr, e.Params, SymbolParamField),
                    LAMBDA params :
               Bind(parseFieldList(psr, e.Results, SymbolResultField),
                    LAMBDA results :
                        Ok([known |-> TRUE,
                            td |-> [td EXCEPT !.Type = "func", !.Params = params,
                                              !.Results = results]])))
          [] e.shape = "MapType" ->
               Ok([known |-> TRUE,
                   td |-> [td EXCEPT !.Type = "map", !.Key = e.Key, !.Value = e.Value]])
          [] e.shape = "ChanType" ->
               Ok([known |-> TRUE,
                   td |-> [td EXCEPT !.Type = "chan", !.Value = e.Value,
                                     !.Dir = CASE e.Dir = "RECV" -> "recv"
                                               [] e.Dir = "SEND" -> "send"
                                               [] OTHER -> ""]])
          [] e.shape = "ArrayType" ->
               Ok([known |-> TRUE,
                   td |-> [td EXCEPT !.Type = "array", !.Elt = e.Elt, !.Len = e.Len]])
          [] OTHER -> Ok([known |-> FALSE, td |-> td])

TypeDefAsSymbol(td) == TypeDefSym(td.Name, td.Type)

\* The loop over t.Methods of a retained type: the methods that pass the
\* filters are appended to td.Methods.
RECURSIVE parseMethodsFrom(_, _, _, _)
parseMethodsFrom(psr, ms, i, res) ==
    IF i > Len(ms)
    THEN Ok(res)
    ELSE Bind(parseFunc(psr, ms[i]),
              LAMBDA pm :
         Bind(includeSymbol(psr.filters, FuncAsSymbol(pm)),
              LAMBDA inc :
                  IF ~inc THEN parseMethodsFrom(psr, ms, i + 1, res)
                  ELSE parseMethodsFrom(psr, ms, i + 1, Append(res, pm))))

parseMethods(psr, ms) == parseMethodsFrom(psr, ms, 1, <<>>)

\* The end of one turn of the loop of parseTypes: the filters are asked
\* about the TypeDef, and only a retained type has its methods parsed and
\* is appended to pkg.Types; p is the *Package the turn has built so far.
retainType(psr, p, t, te) ==
    IF ~te.known
    THEN Ok(p)
    ELSE Bind(includeSymbol(psr.filters, TypeDefAsSymbol(te.td)),
              LAMBDA inc :
                  IF ~inc THEN Ok(p)
                  ELSE Bind(parseMethods(psr, t.Methods),
                            LAMBDA ms :
                                Ok([p EXCEPT !.Types =
                                       Append(@, [te.td EXCEPT !.Methods = @ \o ms])])))

\* One turn of the loop of parseTypes, for the doc.Type t (go/doc gives
\* every type a declaration of its own with one type spec).
parseTypeSkipAssociated(psr, p, t) ==
    Bind(parseTypeExpr(psr, t.Name, t.Doc, t.Expr),
         LAMBDA te :
             IF ~te.known THEN Ok(p)
             ELSE Bind(includeSymbol(psr.filters, TypeDefAsSymbol(te.td)),
                       LAMBDA inc :
                           IF ~inc THEN Ok(p)
                           ELSE Bind(parseConsts(psr, p, t.Consts),
                                     LAMBDA withConsts :
                                Bind(parseFuncs(psr, withConsts, t.Funcs),
                                     LAMBDA withFuncs :
                                         retainType(psr, withFuncs, t, te)))))

parseType(psr, p, t) ==
    Bind(parseConsts(psr, p, t.Consts),
         LAMBDA withConsts :
    Bind(parseFuncs(psr, withConsts, t.Funcs),
         LAMBDA withFuncs :
    Bind(parseTypeExpr(psr, t.Name, t.Doc, t.Expr),
         LAMBDA te : retainType(psr, withFuncs, t, te))))

RECURSIVE parseTypesFrom(_, _, _, _)
parseTypesFrom(psr, p, types, i) ==
    IF i > Len(types)
    THEN Ok(p)
    ELSE Bind(parseType(psr, p, types[i]),
              LAMBDA q : parseTypesFrom(psr, q, types, i + 1))

RECURSIVE parseTypesUntilUnknownFrom(_, _, _, _)
parseTypesUntilUnknownFrom(psr, p, types, i) ==
    IF i > Len(types) \/ types[i].Expr.shape \notin typeShapes
    THEN Ok(p)
    ELSE Bind(parseType(psr, p, types[i]),
              LAMBDA q : parseTypesUntilUnknownFrom(psr, q, types, i + 1))

parseTypesStopAtUnknown(psr, p, types) == parseTypesUntilUnknownFrom(psr, p, types, 1)

parseTypes(psr, p, types) == parseTypesFrom(psr, p, types, 1)

\* Parser.Package: the package doc, then consts, types and functions.
EmptyPackage(name) ==
    [Name |-> name, Doc |-> <<>>, Consts |-> <<>>, Funcs |-> <<>>, Types |-> <<>>]

PackageFuncsBeforeTypes(p, d) ==
    Bind(parseConsts(p, [EmptyPackage(d.Name) EXCEPT !.Doc = mkDoc(p, d.Doc)], d.Consts),
         LAMBDA c :
    Bind(parseFuncs(p, c, d.Funcs),
         LAMBDA f : parseTypes(p, f, d.Types)))

Package(p, d) ==
    Bind(parseConsts(p, [EmptyPackage(d.Name) EXCEPT !.Doc = mkDoc(p, d.Doc)], d.Consts),
         LAMBDA c :
    Bind(parseTypes(p, c, d.Types),
         LAMBDA t : parseFuncs(p, t, d.Funcs)))

(***************************************************************************)
(* entities.go, helpers.go: printing.  A text is a sequence of strings to  *)
(* be read joined; a format string is cut at its verbs.  A writer state W  *)
(* is [w, stdout]: what was written to the io.Writer and to os.Stdout.     *)
(***************************************************************************)
RECURSIVE NameString(_)
NameString(n) == IF Len(n) = 0 THEN "" ELSE n[1] \o NameString(Tail(n))

\* The doc comment a Print method starts with: nothing for an empty Doc.
docComment(doc) == IF Len(doc) # 0 THEN mkComment(doc) ELSE <<>>

\* The comment a Print method ends a line with: nothing for an empty Comment.
lineComment(comment) == IF Len(comment) # 0 THEN <<" // ">> \o comment ELSE <<>>

Fprint(W, text) == [W EXCEPT !.w = @ \o text]
Printf(W, text) == [W EXCEPT !.stdout = @ \o text]

\* Field.Print, Field.String.
FieldPrint(sf) ==
    docComment(sf.Doc)
        \o JoinText([k \in 1..Len(sf.Names) |-> <<NameString(sf.Names[k])>>], ", ")
        \o <<" ", sf.Type>>
        \o lineComment(sf.Comment)

fieldsList(fl) ==
    IF Len(fl) = 0
    THEN <<>>
    ELSE JoinText([i \in 1..Len(fl) |-> FieldPrint(fl[i])], ", ")

resultsList(fl) ==
    IF Len(fl) > 1 THEN <<"(">> \o fieldsList(fl) \o <<")">> ELSE fieldsList(fl)

\* Func.Print, Func.String.
FuncPrint(f) ==
    docComment(f.Doc)
        \o (IF f.funcKw THEN <<"func ">> ELSE <<>>)
        \o (IF Len(f.Receiver) # 0
            THEN <<"(">> \o FieldPrint(f.Receiver[1]) \o <<") ">>
            ELSE <<>>)
        \o <<NameString(f.Name), "(">> \o fieldsList(f.Params) \o <<") ">>
        \o resultsList(f.Results)
        \o lineComment(f.Comment)

\* printNodes of the value spec a Const points at: the text of that node.
printValueSpec(pos) == "valuespec" \o ToString(pos)

ConstPrint(c) == <<printValueSpec(c.valSpec)>>

ConstGroupPrint(cg) ==
    IF Len(cg.Consts) = 0 THEN <<>>
    ELSE IF Len(cg.Consts) = 1
    THEN docComment(cg.Doc) \o <<"const ">> \o ConstPrint(cg.Consts[1])
    ELSE docComment(cg.Doc) \o <<"const ", "(\n">>
            \o Concat([k \in 1..Len(cg.Consts) |->
                          <<"    ">> \o ConstPrint(cg.Consts[k]) \o <<"\n">>])
            \o <<")">>

\* The loops that write "\n\n" and a method, to the writer and to os.Stdout.
methodsText(ms) == Concat([k \in 1..Len(ms) |-> <<"\n\n">> \o FuncPrint(ms[k])])

printStructType(W, s) ==
    Fprint(W, docComment(s.Doc) \o <<"type ", NameString(s.Name), " struct {">>
                \o (IF Len(s.Fields) # 0
                    THEN <<"\n">> \o Concat([k \in 1..Len(s.Fields) |->
                                               FieldPrint(s.Fields[k]) \o <<"\n">>])
                    ELSE <<>>)
                \o <<"}">>
                \o methodsText(s.Methods))

printInterfaceType(W, iface) ==
    Fprint(W, docComment(iface.Doc) \o <<"type ", NameString(iface.Name), " interface {">>
                \o (IF Len(iface.Methods) # 0
                    THEN <<"\n">> \o Concat([k \in 1..Len(iface.Methods) |->
                                               <<"    ">> \o FuncPrint(iface.Methods[k])
                                                   \o <<"\n">>])
                    ELSE <<>>)
                \o <<"}">>)

printFuncType(W, f) ==
    Fprint(W, docComment(f.Doc) \o <<"type ", NameString(f.Name), " func(">> \o fieldsList(f.Params)
                \o <<") ">> \o resultsList(f.Results))

printMapType(W, mt) ==
    Printf(Fprint(W, docComment(mt.Doc) \o <<"type ", NameString(mt.Name), " map[", mt.Key, "]", mt.Value>>),
           methodsText(mt.Methods))

printChanType(W, ch) ==
    Fprint(W, docComment(ch.Doc) \o <<"type ", NameString(ch.Name), " ",
                CASE ch.Dir = "recv" -> "<-chan "
                  [] ch.Dir = "send" -> "chan<- "
                  [] OTHER -> "chan ",
                ch.Value>>)

printArrayType(W, a) ==
    Printf(Fprint(W, docComment(a.Doc) \o <<"type ", NameString(a.Name), " [", a.Len, "]", a.Elt>>),
           methodsText(a.Methods))

\* TypeDef.Print.
TypeDefPrint(W, td) ==
    CASE td.Type = "struct" -> printStructType(W, td)
      [] td.Type = "interface" -> printInterfaceType(W, td)
      [] td.Type = "func" -> printFuncType(W, td)
      [] td.Type = "map" -> printMapType(W, td)
      [] td.Type = "chan" -> printChanType(W, td)
      [] td.Type = "array" -> printArrayType(W, td)
      [] OTHER -> Fprint(W, docComment(td.Doc) \o <<"type ", NameString(td.Name), " ", td.Type>>
                              \o methodsText(td.Methods))

\* The loop of Package.Print over p.Types from type number i on.
RECURSIVE printTypesFrom(_, _, _)
printTypesFrom(W, types, i) ==
    IF i > Len(types)
    THEN W
    ELSE printTypesFrom(TypeDefPrint(Fprint(W, <<"\n\n">>), types[i]), types, i + 1)

PackagePrintFuncsFirst(W, p) ==
    Fprint(printTypesFrom(
               Fprint(W, docComment(p.Doc) \o <<"package ", NameString(p.Name)>>
                           \o Concat([k \in 1..Len(p.Funcs) |->
                                         <<"\n\n">> \o FuncPrint(p.Funcs[k])])
                           \o Concat([k \in 1..Len(p.Consts) |->
                                         <<"\n\n">> \o ConstGroupPrint(p.Consts[k])])),
               p.Types, 1),
           <<"\n">>)

\* Package.Print.
PackagePrint(W, p) ==
    Fprint(printTypesFrom(
               Fprint(W, docComment(p.Doc) \o <<"package ", NameString(p.Name)>>
                           \o Concat([k \in 1..Len(p.Consts) |->
                                         <<"\n\n">> \o ConstGroupPrint(p.Consts[k])])),
               p.Types, 1),
           Concat([k \in 1..Len(p.Funcs) |-> <<"\n\n">> \o FuncPrint(p.Funcs[k])])
               \o <<"\n">>)

(***************************************************************************)
(* The inputs.  Identifiers, and the text of a type expression by its      *)
(* position in a list, so that two declarations of one list differ even    *)
(* when their names agree.                                                 *)
(***************************************************************************)
NameA == <<"A">>
Nameb == <<"b">>
NameC == <<"C", "x">>
NameUnderscore == <<"_", "c">>
NameAb == <<"A", "b">>

TypeText(i) ==
    CASE i = 1 -> "int"
      [] i = 2 -> "string"
      [] i = 3 -> "bool"
      [] i = 4 -> "error"
      [] OTHER -> "any"

SeqsUpTo(S, n) == UNION {[1..k -> S] : k \in 0..n}
NonEmptySeqsUpTo(S, n) == UNION {[1..k -> S] : k \in 1..n}

AstField(names, type) == [Names |-> names, Type |-> type, Doc |-> <<>>, Comment |-> <<>>]

\* A field list from a list of name lists, the k-th field of type TypeText(k).
FieldListOf(nss) == [k \in 1..Len(nss) |-> AstField(nss[k], TypeText(k))]

ValueSpec(names, values, pos) ==
    [Names |-> names, Values |-> values, HasType |-> FALSE, Pos |-> pos]

\* A const group from a list of names, the k-th spec declaring names[k] = literal.
DocValueOf(ns) ==
    [Doc |-> <<>>,
     Specs |-> [k \in 1..Len(ns) |-> ValueSpec(<<ns[k]>>, <<"BasicLit">>, k)]]

DocFunc(name, recv, params, results) ==
    [Name |-> name, Doc |-> <<>>, Recv |-> recv, Params |-> params, Results |-> results]

\* Functions from a list of names, the k-th taking one unnamed TypeText(k).
DocFuncsOf(ns) ==
    [k \in 1..Len(ns) |-> DocFunc(ns[k], <<>>, <<AstField(<<>>, TypeText(k))>>, <<>>)]

\* Methods of the type tn from a list of names.
DocMethodsOf(tn, ns) ==
    [k \in 1..Len(ns) |->
        DocFunc(ns[k], <<AstField(<<Nameb>>, "T")>>, <<AstField(<<>>, TypeText(k))>>,
                <<AstField(<<>>, "error")>>)]

TypeExpr(shape, ident, fields, methods, params, results) ==
    [shape |-> shape, Ident |-> ident, Fields |-> fields, Methods |-> methods,
     Params |-> params, Results |-> results, Key |-> "string", Value |-> ident,
     Dir |-> "RECV", Elt |-> ident, Len |-> "4"]

PlainExpr(shape) == TypeExpr(shape, "int", <<>>, <<>>, <<>>, <<>>)
StructExpr(fields) == TypeExpr("StructType", "", fields, <<>>, <<>>, <<>>)
InterfaceExpr(methods) == TypeExpr("InterfaceType", "", <<>>, methods, <<>>, <<>>)
FuncTypeExpr(params, results) == TypeExpr("FuncType", "", <<>>, <<>>, params, results)

\* An entry of an interface's method list: a method, or an embedded interface.
InterfaceMethod(name) ==
    [Names |-> <<name>>, IsFunc |-> TRUE, Doc |-> <<>>, Comment |-> <<>>,
     Params |-> <<AstField(<<>>, "int")>>, Results |-> <<>>]
EmbeddedInterface ==
    [Names |-> <<>>, IsFunc |-> FALSE, Doc |-> <<>>, Comment |-> <<>>, Params |-> <<>>,
     Results |-> <<>>]

DocType(name, expr, consts, funcs, methods) ==
    [Name |-> name, Doc |-> <<>>, Expr |-> expr, Consts |-> consts, Funcs |-> funcs,
     Methods |-> methods]

DocPackage(consts, types, funcs) ==
    [Name |-> Nameb, Doc |-> <<>>, Consts |-> consts, Types |-> types, Funcs |-> funcs]

allShapes == typeShapes \cup {"StarExpr"}

\* Packages of const groups only.
SmallGroups ==
    { DocValueOf(<<NameA>>), DocValueOf(<<Nameb>>), DocValueOf(<<Nameb, NameA>>),
      [Doc |-> <<>>,
       Specs |-> <<ValueSpec(<<Nameb, NameA>>, <<"BasicLit", "CallExpr">>, 1),
                    ValueSpec(<<NameA>>, <<"BinaryExpr">>, 2)>>] }

ConstPackages ==
    { DocPackage(<<DocValueOf(ns)>>, <<>>, <<>>) :
        ns \in NonEmptySeqsUpTo({NameA, Nameb}, MaxFields) }
    \cup { DocPackage(<<g1, g2>>, <<>>, <<>>) : g1 \in SmallGroups, g2 \in SmallGroups }

\* Packages of one struct, or of one interface.
FieldNames == {<<NameA>>, <<Nameb>>, <<>>}

StructPackages ==
    { DocPackage(<<>>, <<DocType(n, StructExpr(FieldListOf(nss)), <<>>, <<>>, <<>>)>>, <<>>) :
        n \in {NameA, Nameb}, nss \in SeqsUpTo(FieldNames, MaxFields) }

InterfacePackages ==
    { DocPackage(<<>>, <<DocType(NameA, InterfaceExpr(ms), <<>>, <<>>, <<>>)>>, <<>>) :
        ms \in SeqsUpTo({InterfaceMethod(NameA), InterfaceMethod(Nameb), EmbeddedInterface},
                        MaxFields) }

\* Packages of one type of any shape with its constructors, const group and
\* methods, followed by top-level functions.
Associated ==
    { [Consts |-> <<>>, Funcs |-> <<>>, Methods |-> <<>>],
      [Consts |-> <<DocValueOf(<<NameA, Nameb>>)>>, Funcs |-> DocFuncsOf(<<NameC>>),
       Methods |-> <<>>],
      [Consts |-> <<>>, Funcs |-> DocFuncsOf(<<Nameb, NameA>>),
       Methods |-> DocMethodsOf(NameA, <<NameC, NameA>>)],
      [Consts |-> <<DocValueOf(<<Nameb>>)>>, Funcs |-> <<>>,
       Methods |-> DocMethodsOf(NameA, <<NameA, Nameb, NameC>>)] }

ShapeExprs ==
    { PlainExpr(sh) : sh \in allShapes \ {"StructType", "InterfaceType", "FuncType"} }
    \cup { StructExpr(FieldListOf(<<<<NameA>>, <<Nameb>>>>)),
           InterfaceExpr(<<InterfaceMethod(Nameb)>>),
           FuncTypeExpr(FieldListOf(<<<<>>, <<>>>>), FieldListOf(<<<<Nameb>>>>)) }

TypePackages ==
    { DocPackage(<<>>, <<DocType(n, e, a.Consts, a.Funcs, a.Methods)>>, DocFuncsOf(fns)) :
        n \in {NameA, Nameb}, e \in ShapeExprs, a \in Associated,
        fns \in {<<>>, <<NameA, Nameb>>} }

\* Packages of two types and of top-level functions only.
SmallTypes ==
    { DocType(NameA, PlainExpr("Ident"), <<>>, DocFuncsOf(<<NameA>>), <<>>),
      DocType(Nameb, PlainExpr("StarExpr"), <<DocValueOf(<<NameA>>)>>, <<>>, <<>>),
      DocType(NameC, StructExpr(FieldListOf(<<<<Nameb>>, <<NameA>>>>)), <<>>,
              DocFuncsOf(<<Nameb>>), DocMethodsOf(NameC, <<NameA, Nameb>>)) }

TwoTypePackages ==
    { DocPackage(<<DocValueOf(<<NameA>>)>>, <<t1, t2>>, DocFuncsOf(<<NameA>>)) :
        t1 \in SmallTypes, t2 \in SmallTypes }

FuncPackages ==
    { DocPackage(<<>>, <<>>, DocFuncsOf(ns)) :
        ns \in SeqsUpTo({NameA, Nameb, NameC}, MaxFields) }

\* Documented packages.  A doc text is what go/doc and CommentGroup.Text
\* hand over: words, full stops, spaces and line breaks, here and there
\* with a comment marker left at the start.
DocTexts ==
    { <<" ", "//", " ", "Pkg", " ", "does", ".", " ", "More", ".", "\n">>,
      <<"Short", "\n">>,
      <<"//", " ", " ", "x", ".", "\n", "y">>,
      <<"one", "\n", "\n", "two", ".", " ">> }

DocumentedStruct(d1, d2) ==
    [DocType(NameA,
             StructExpr(<<[AstField(<<NameA>>, "int") EXCEPT !.Doc = d2, !.Comment = d1],
                          AstField(<<Nameb>>, "bool")>>),
             <<[DocValueOf(<<NameC>>) EXCEPT !.Doc = d1]>>,
             <<>>,
             <<[DocFunc(NameAb, <<AstField(<<Nameb>>, "A")>>, <<>>, <<>>)
                   EXCEPT !.Doc = d2]>>)
        EXCEPT !.Doc = d1]

DocumentedInterface(d1, d2) ==
    [DocType(NameC,
             InterfaceExpr(<<[InterfaceMethod(NameA) EXCEPT !.Doc = d1, !.Comment = d2],
                             InterfaceMethod(Nameb)>>),
             <<>>, <<>>, <<>>)
        EXCEPT !.Doc = d2]

DocumentedPackages ==
    { [DocPackage(<<[DocValueOf(<<NameA>>) EXCEPT !.Doc = d2]>>,
                  <<DocumentedStruct(d1, d2), DocumentedInterface(d1, d2)>>,
                  <<[DocFunc(Nameb, <<>>,
                             <<[AstField(<<NameA>>, "int") EXCEPT !.Comment = d2]>>, <<>>)
                        EXCEPT !.Doc = d1]>>)
          EXCEPT !.Doc = d1] :
        d1 \in DocTexts, d2 \in DocTexts \cup {<<>>} }

\* Packages of one type defined by a bare identifier: a predeclared type,
\* or a type of the package that is named array.
AliasPackages ==
    { DocPackage(<<>>, <<DocType(n, TypeExpr("Ident", id, <<>>, <<>>, <<>>, <<>>),
                                 <<>>, <<>>, <<>>)>>, <<>>) :
        n \in {NameA, Nameb}, id \in {"int", "array"} }

InputPackages ==
    ConstPackages \cup StructPackages \cup InterfacePackages \cup TypePackages
    \cup TwoTypePackages \cup FuncPackages \cup DocumentedPackages \cup AliasPackages

(***************************************************************************)
(* The parsers: the filter lists NewParser is given by WithSymbolFilters,  *)
(* and the parsers NewParser builds from WithFullDocs and WithNoDocs.      *)
(***************************************************************************)
PatternStartsA == [anchored |-> TRUE, lit |-> <<"A">>]
PatternHasb == [anchored |-> FALSE, lit |-> <<"b">>]

ParserFilters ==
    { FilterUnexported(Exclude), FilterUnexported(Include),
      FilterSymbolTypes(Exclude, {SymbolFunc}),
      FilterSymbolTypes(Exclude, {SymbolStructType, SymbolIdentType}),
      FilterSymbolTypes(Include, {SymbolStructType, SymbolInterfaceType, SymbolFunc,
                                  SymbolConst}),
      FilterSymbolTypes(Exclude, {SymbolConst, SymbolStructField}),
      FilterMatchingIdents(Exclude, PatternStartsA),
      FilterMatchingIdents(Include, PatternHasb) }

Parsers ==
    { [filters |-> fs, fullDocs |-> FALSE, noDocs |-> FALSE] :
        fs \in SeqsUpTo(ParserFilters, MaxFilters) }
    \cup { [filters |-> fs, fullDocs |-> f, noDocs |-> n] :
              fs \in {<<>>, <<FilterUnexported(Exclude)>>}, f \in BOOLEAN, n \in BOOLEAN }

NoSymbol == MkSymbol("none", <<>>, "", SymbolUnknown, FALSE)
NoVerdict == [called |-> FALSE, each |-> <<>>, all |-> Panic]
NoArg == [fn |-> "none", fl |-> <<>>, s |-> <<>>, sym |-> NoSymbol]

(***************************************************************************)
(* Spec: a parser is built and Parser.Package runs once on an input.       *)
(***************************************************************************)
Init ==
    /\ parser \in Parsers
    /\ dPkg \in InputPackages
    /\ pkg = EmptyPackage(dPkg.Name)
    /\ pc = "ready"
    /\ sym = NoSymbol
    /\ verdict = NoVerdict
    /\ arg = NoArg /\ out = <<>> /\ stdout = <<>>

ParserPackageUsesUpFilters ==
    /\ pc = "ready"
    /\ LET r == Package(parser, dPkg)
       IN  IF r.panic
           THEN pc' = "panic" /\ UNCHANGED pkg
           ELSE pc' = "done" /\ pkg' = r.val
    /\ parser' = [parser EXCEPT !.filters = <<>>]
    /\ UNCHANGED <<dPkg, sym, verdict, arg, out, stdout>>

\* Parser.Package: returns the Package, or panics.
ParserPackage ==
    /\ pc = "ready"
    /\ LET r == Package(parser, dPkg)
       IN  IF r.panic
           THEN pc' = "panic" /\ UNCHANGED pkg
           ELSE pc' = "done" /\ pkg' = r.val
    /\ UNCHANGED <<parser, dPkg, sym, verdict, arg, out, stdout>>

Next == ParserPackage

Spec == Init /\ [][Next]_vars

(***************************************************************************)
(* SpecPrint: Parser.Package runs, and Package.String is called on the     *)
(* Package it returned.                                                    *)
(***************************************************************************)
PrintParsers == { p \in Parsers : Len(p.filters) <= 1 }

InitPrint ==
    /\ Init
    /\ parser \in PrintParsers

\* Package.String: Package.Print into a strings.Builder.
PackageString ==
    /\ pc = "done"
    /\ LET W == PackagePrint([w |-> <<>>, stdout |-> stdout], pkg)
       IN  out' = W.w /\ stdout' = W.stdout
    /\ pc' = "printed"
    /\ UNCHANGED <<parser, dPkg, pkg, sym, verdict, arg>>

\* Parser.Package called a second time with the same Parser on the same
\* input, after the first Package was printed.
PackageAgain ==
    /\ pc = "printed"
    /\ LET r == Package(parser, dPkg)
       IN  IF r.panic
           THEN pc' = "panic" /\ UNCHANGED pkg
           ELSE pc' = "done again" /\ pkg' = r.val
    /\ UNCHANGED <<parser, dPkg, sym, verdict, arg, out, stdout>>

\* Package.String called on the Package of the second run.
StringAgain ==
    /\ pc = "done again"
    /\ LET W == PackagePrint([w |-> <<>>, stdout |-> stdout], pkg)
       IN  out' = W.w /\ stdout' = W.stdout
    /\ pc' = "printed again"
    /\ UNCHANGED <<parser, dPkg, pkg, sym, verdict, arg>>

NextPrint == ParserPackage \/ PackageString \/ PackageAgain \/ StringAgain

SpecPrint == InitPrint /\ [][NextPrint]_vars

(***************************************************************************)
(* SpecHelpers: resultsList is called on a list of result fields,          *)
(* mkComment on a doc string, and IsExported on an entity.                 *)
(***************************************************************************)
MaxDocLen == 5

ResultFields ==
    { [Names |-> ns, Type |-> t, symbolType |-> SymbolResultField, Doc |-> <<>>,
       Comment |-> <<>>] :
        ns \in {<<>>, <<NameA>>, <<NameA, Nameb>>}, t \in {"int", "error"} }

\* Words of 34 and of 40 characters.
Word34 == "aaaaaaaaaaaaaaaaaaaaaaaaaaaaaaaaaa"
Word40 == "bbbbbbbbbbbbbbbbbbbbbbbbbbbbbbbbbbbbbbbb"

DocStrings == SeqsUpTo({Word34, Word40, " ", "\n"}, MaxDocLen)

\* Entities of every Go type that implements Symbol, by their names.
Entities ==
    { PackageSym(n) : n \in {NameA, Nameb, NameUnderscore} }
    \cup { ConstSym(ns) : ns \in {<<NameA>>, <<Nameb, NameA>>, <<NameUnderscore, NameA>>} }
    \cup { FuncSym(n, r) : n \in {NameA, Nameb, NameC, NameAb, NameUnderscore},
                           r \in BOOLEAN }
    \cup { TypeDefSym(n, t) : n \in {NameA, Nameb, NameUnderscore}, t \in {"struct", "int"} }
    \cup { FieldSym(ns, SymbolStructField) :
              ns \in {<<NameA>>, <<Nameb>>, <<NameUnderscore>>, <<NameC, Nameb>>} }

InitHelpers ==
    /\ arg \in { [NoArg EXCEPT !.fn = "resultsList", !.fl = fl] :
                    fl \in SeqsUpTo(ResultFields, MaxFields) }
               \cup { [NoArg EXCEPT !.fn = "mkComment", !.s = d] : d \in DocStrings }
               \cup { [NoArg EXCEPT !.fn = "IsExported", !.sym = e] : e \in Entities }
    /\ out = <<>> /\ stdout = <<>>
    /\ pc = "ready"
    /\ parser = [filters |-> <<>>, fullDocs |-> FALSE, noDocs |-> FALSE]
    /\ dPkg = DocPackage(<<>>, <<>>, <<>>)
    /\ pkg = EmptyPackage(dPkg.Name)
    /\ sym = NoSymbol
    /\ verdict = NoVerdict

ResultsList ==
    /\ pc = "ready" /\ arg.fn = "resultsList"
    /\ out' = resultsList(arg.fl)
    /\ pc' = "returned"
    /\ UNCHANGED <<parser, dPkg, pkg, sym, verdict, arg, stdout>>

MkComment ==
    /\ pc = "ready" /\ arg.fn = "mkComment"
    /\ out' = mkComment(arg.s)
    /\ pc' = "returned"
    /\ UNCHANGED <<parser, dPkg, pkg, sym, verdict, arg, stdout>>

\* s.IsExported() of an entity: the text of the answer.
SymbolIsExported ==
    /\ pc = "ready" /\ arg.fn = "IsExported"
    /\ out' = Bind(IsExported(arg.sym), LAMBDA e : IF e THEN <<"true">> ELSE <<"false">>)
    /\ pc' = "returned"
    /\ UNCHANGED <<parser, dPkg, pkg, sym, verdict, arg, stdout>>

NextHelpers == ResultsList \/ MkComment \/ SymbolIsExported

SpecHelpers == InitHelpers /\ [][NextHelpers]_vars

(***************************************************************************)
(* internal/cli/flags.go.  A string of the command line or of the          *)
(* configuration is a sequence of one-character strings.                   *)
(***************************************************************************)
SymbolMethod == "SymbolMethod"

StrArrayType == <<"a", "r", "r", "a", "y", "T", "y", "p", "e">>
StrChanType == <<"c", "h", "a", "n", "T", "y", "p", "e">>
StrConst == <<"c", "o", "n", "s", "t">>
StrFunc == <<"f", "u", "n", "c">>
StrFuncType == <<"f", "u", "n", "c", "T", "y", "p", "e">>
StrIdentType == <<"i", "d", "e", "n", "t", "T", "y", "p", "e">>
StrInterface == <<"i", "n", "t", "e", "r", "f", "a", "c", "e">>
StrMapType == <<"m", "a", "p", "T", "y", "p", "e">>
StrMethod == <<"m", "e", "t", "h", "o", "d">>
StrStruct == <<"s", "t", "r", "u", "c", "t">>

symbolTypeMap ==
    { [key |-> StrArrayType, val |-> SymbolArrayType],
      [key |-> StrChanType, val |-> SymbolChanType],
      [key |-> StrConst, val |-> SymbolConst],
      [key |-> StrFunc, val |-> SymbolFunc],
      [key |-> StrFuncType, val |-> SymbolFuncType],
      [key |-> StrIdentType, val |-> SymbolIdentType],
      [key |-> StrInterface, val |-> SymbolInterfaceType],
      [key |-> StrMapType, val |-> SymbolMapType],
      [key |-> StrMethod, val |-> SymbolMethod],
      [key |-> StrStruct, val |-> SymbolStructType] }

\* supportedSymbolTypes: the keys of symbolTypeMap, which usage lists under
\* SYMBOL TYPES.
supportedSymbolTypes == { e.key : e \in symbolTypeMap }

\* strings.ToLower, character by character.
ToLower(c) ==
    CASE c = "A" -> "a"
      [] c = "B" -> "b"
      [] c = "C" -> "c"
      [] c = "S" -> "s"
      [] c = "T" -> "t"
      [] c = "X" -> "x"
      [] OTHER -> c

\* strings.Split(s, sep) for a one-character sep; cur is the piece being read.
RECURSIVE SplitFrom(_, _, _, _)
SplitFrom(s, sep, i, cur) ==
    IF i > Len(s) THEN <<cur>>
    ELSE IF s[i] = sep THEN <<cur>> \o SplitFrom(s, sep, i + 1, <<>>)
    ELSE SplitFrom(s, sep, i + 1, Append(cur, s[i]))

Split(s, sep) == SplitFrom(s, sep, 1, <<>>)

\* The key strToSymbolTypes looks up for one piece of the list.
symbolTypeKey(s) == TrimSpace([k \in 1..Len(s) |-> ToLower(s[k])])

\* The loop of strToSymbolTypes from piece number i on.  The result is
\* [err, val]: err is "" for a nil error.
RECURSIVE strToSymbolTypesFrom(_, _, _)
strToSymbolTypesFrom(ss, i, res) ==
    IF i > Len(ss) THEN [err |-> "", val |-> res]
    ELSE IF Len(symbolTypeKey(ss[i])) = 0 THEN strToSymbolTypesFrom(ss, i + 1, res)
    ELSE IF symbolTypeKey(ss[i]) \notin supportedSymbolTypes
    THEN [err |-> "unsupported symbol type string", val |-> <<>>]
    ELSE strToSymbolTypesFrom(ss, i + 1,
             Append(res, (CHOOSE e \in symbolTypeMap : e.key = symbolTypeKey(ss[i])).val))

strToSymbolTypes(list) == strToSymbolTypesFrom(Split(list, ","), 1, <<>>)

\* regexp.Compile on the patterns of the model: literal characters, "^" at
\* the start, and "(" which opens a group; a group that is not closed is a
\* syntax error.  The result is [err, val].
Compile(src) ==
    IF \E k \in 1..Len(src) : src[k] = "("
    THEN [err |-> "missing closing )", val |-> NoPattern]
    ELSE IF Len(src) # 0 /\ src[1] = "^"
    THEN [err |-> "", val |-> [anchored |-> TRUE, lit |-> Tail(src)]]
    ELSE [err |-> "", val |-> [anchored |-> FALSE, lit |-> src]]

\* The zero Config with the defaults of initFlagSet.
ZeroConfig ==
    [Exclude |-> <<>>, Only |-> <<>>, Matching |-> <<>>, ExcludeMatching |-> <<>>,
     Theme |-> "swapoff", Dirs |-> <<>>, NoDocs |-> FALSE, NoTags |-> FALSE,
     NoHighlight |-> FALSE, FullDocs |-> FALSE, Unexported |-> FALSE,
     Version |-> FALSE, NoEnv |-> FALSE]

\* The set of a list of symbol types.
SymbolTypeSet(st) == { st[k] : k \in 1..Len(st) }

\* filtersFromCfg, from the step after the symbol type lists: the two
\* patterns.  The result is [err, val].
filtersFromCfgPatterns(cfg, filters) ==
    IF Len(cfg.Matching) # 0 /\ Compile(cfg.Matching).err # ""
    THEN [err |-> "parsing matching regular expression", val |-> <<>>]
    ELSE IF Len(cfg.ExcludeMatching) # 0 /\ Compile(cfg.ExcludeMatching).err # ""
    THEN [err |-> "parsing exclude matching regular expression", val |-> <<>>]
    ELSE [err |-> "",
          val |-> filters
                    \o (IF Len(cfg.Matching) # 0
                        THEN <<FilterMatchingIdents(Include, Compile(cfg.Matching).val)>>
                        ELSE <<>>)
                    \o (IF Len(cfg.ExcludeMatching) # 0
                        THEN <<FilterMatchingIdents(Exclude, Compile(cfg.ExcludeMatching).val)>>
                        ELSE <<>>)]

filtersFromCfgPatternsFirst(cfg) ==
    IF Len(cfg.Exclude) # 0 /\ strToSymbolTypes(cfg.Exclude).err # ""
    THEN [err |-> "parsing symbol types", val |-> <<>>]
    ELSE IF Len(cfg.Only) # 0 /\ strToSymbolTypes(cfg.Only).err # ""
    THEN [err |-> "parsing symbol types", val |-> <<>>]
    ELSE [filtersFromCfgPatterns(cfg, <<>>) EXCEPT
             !.val = @ \o (IF ~cfg.Unexported THEN <<FilterUnexported(Exclude)>> ELSE <<>>)
                       \o (IF Len(cfg.Exclude) # 0
                           THEN <<FilterSymbolTypes(Exclude,
                                     SymbolTypeSet(strToSymbolTypes(cfg.Exclude).val))>>
                           ELSE <<>>)
                       \o (IF Len(cfg.Only) # 0
                           THEN <<FilterSymbolTypes(Include,
                                     SymbolTypeSet(strToSymbolTypes(cfg.Only).val))>>
                           ELSE <<>>)]

\* filtersFromCfg: the first error met ends it with no filters.
filtersFromCfg(cfg) ==
    IF Len(cfg.Exclude) # 0 /\ strToSymbolTypes(cfg.Exclude).err # ""
    THEN [err |-> "parsing symbol types", val |-> <<>>]
    ELSE IF Len(cfg.Only) # 0 /\ strToSymbolTypes(cfg.Only).err # ""
    THEN [err |-> "parsing symbol types", val |-> <<>>]
    ELSE filtersFromCfgPatterns(cfg,
             (IF ~cfg.Unexported THEN <<FilterUnexported(Exclude)>> ELSE <<>>)
                 \o (IF Len(cfg.Exclude) # 0
                     THEN <<FilterSymbolTypes(Exclude,
                               SymbolTypeSet(strToSymbolTypes(cfg.Exclude).val))>>
                     ELSE <<>>)
                 \o (IF Len(cfg.Only) # 0
                     THEN <<FilterSymbolTypes(Include,
                               SymbolTypeSet(strToSymbolTypes(cfg.Only).val))>>
                     ELSE <<>>))

\* The parser options: WithFullDocs, WithNoDocs, WithNoTags and
\* WithSymbolFilters.
WithOption(name) == [opt |-> name, f |-> <<>>]
WithSymbolFilters(filters) == [opt |-> "symbolFilters", f |-> filters]

ParserOptsFromCfgKeepsOptions(cfg) ==
    [err |-> filtersFromCfg(cfg).err,
     opts |-> (IF cfg.FullDocs THEN <<WithOption("fullDocs")>> ELSE <<>>)
                \o (IF cfg.NoDocs THEN <<WithOption("noDocs")>> ELSE <<>>)
                \o (IF cfg.NoTags THEN <<WithOption("noTags")>> ELSE <<>>)
                \o (IF Len(filtersFromCfg(cfg).val) # 0
                    THEN <<WithSymbolFilters(filtersFromCfg(cfg).val)>>
                    ELSE <<>>)]

\* ParserOptsFromCfg: [err, opts]; opts is the empty sequence for nil.
ParserOptsFromCfg(cfg) ==
    IF filtersFromCfg(cfg).err # ""
    THEN [err |-> filtersFromCfg(cfg).err, opts |-> <<>>]
    ELSE [err |-> "",
          opts |-> (IF cfg.FullDocs THEN <<WithOption("fullDocs")>> ELSE <<>>)
                     \o (IF cfg.NoDocs THEN <<WithOption("noDocs")>> ELSE <<>>)
                     \o (IF cfg.NoTags THEN <<WithOption("noTags")>> ELSE <<>>)
                     \o (IF Len(filtersFromCfg(cfg).val) # 0
                         THEN <<WithSymbolFilters(filtersFromCfg(cfg).val)>>
                         ELSE <<>>)]

\* flag.FlagSet.Parse on the flags initFlagSet defines that take no value.
\* Flags are read up to the first argument that is no flag, or up to "--";
\* -help and -h are not defined, for which Parse returns flag.ErrHelp; any
\* other flag that is not defined is an error.  The result is
\* [err, cfg, rest], rest the arguments that are left (flagSet.Args).
BoolFlags == {"-unexported", "-no-docs", "-full-docs", "-version"}

SetFlag(cfg, name) ==
    CASE name = "-unexported" -> [cfg EXCEPT !.Unexported = TRUE]
      [] name = "-no-docs" -> [cfg EXCEPT !.NoDocs = TRUE]
      [] name = "-full-docs" -> [cfg EXCEPT !.FullDocs = TRUE]
      [] OTHER -> [cfg EXCEPT !.Version = TRUE]

IsFlag(a) == a \in BoolFlags \cup {"-help", "-h", "-bogus", "--"}

RECURSIVE flagSetParseFrom(_, _, _)
flagSetParseFrom(cfg, args, i) ==
    IF i > Len(args) THEN [err |-> "", cfg |-> cfg, rest |-> <<>>]
    ELSE IF ~IsFlag(args[i]) THEN [err |-> "", cfg |-> cfg, rest |-> SubSeq(args, i, Len(args))]
    ELSE IF args[i] = "--" THEN [err |-> "", cfg |-> cfg, rest |-> SubSeq(args, i + 1, Len(args))]
    ELSE IF args[i] \in {"-help", "-h"} THEN [err |-> "flag.ErrHelp", cfg |-> cfg, rest |-> <<>>]
    ELSE IF args[i] \notin BoolFlags
    THEN [err |-> "flag provided but not defined", cfg |-> cfg, rest |-> <<>>]
    ELSE flagSetParseFrom(SetFlag(cfg, args[i]), args, i + 1)

flagSetParse(args) == flagSetParseFrom(ZeroConfig, args, 1)

\* envConfig: the variables of the environment env overwrite the fields of
\* the configuration, unless NoEnv is set.
envConfig(cfg, env) ==
    IF cfg.NoEnv THEN cfg
    ELSE [cfg EXCEPT !.Unexported = IF "PKGDMP_UNEXPORTED" \in env THEN TRUE ELSE @,
                     !.NoHighlight = IF "NO_COLOR" \in env THEN TRUE ELSE @]

NilConfig == [nil |-> TRUE]

ParseFlagsVersionFirst(args, env) ==
    IF \E k \in 1..Len(args) : args[k] = "-version"
    THEN [cfg |-> NilConfig, code |-> 0, err |-> "ErrVersion"]
    ELSE IF flagSetParse(args).err = "flag.ErrHelp"
    THEN [cfg |-> NilConfig, code |-> 0, err |-> "flag.ErrHelp"]
    ELSE IF flagSetParse(args).err # ""
    THEN [cfg |-> NilConfig, code |-> 1, err |-> flagSetParse(args).err]
    ELSE IF Len(flagSetParse(args).rest) = 0
    THEN [cfg |-> NilConfig, code |-> 1, err |-> "ErrNoDirs"]
    ELSE [cfg |-> envConfig([flagSetParse(args).cfg EXCEPT
                                !.Dirs = flagSetParse(args).rest], env),
          code |-> 0, err |-> ""]

\* ParseFlags: (cfg, exit code, err).
ParseFlags(args, env) ==
    IF flagSetParse(args).err = "flag.ErrHelp"
    THEN [cfg |-> NilConfig, code |-> 0, err |-> "flag.ErrHelp"]
    ELSE IF flagSetParse(args).err # ""
    THEN [cfg |-> NilConfig, code |-> 1, err |-> flagSetParse(args).err]
    ELSE IF flagSetParse(args).cfg.Version
    THEN [cfg |-> NilConfig, code |-> 0, err |-> "ErrVersion"]
    ELSE IF Len(flagSetParse(args).rest) = 0
    THEN [cfg |-> NilConfig, code |-> 1, err |-> "ErrNoDirs"]
    ELSE [cfg |-> envConfig([flagSetParse(args).cfg EXCEPT
                                !.Dirs = flagSetParse(args).rest], env),
          code |-> 0, err |-> ""]

(***************************************************************************)
(* SpecCli: one call of strToSymbolTypes on a list, of ParserOptsFromCfg   *)
(* on a configuration, or of ParseFlags on a command line.                 *)
(***************************************************************************)
MaxNames == 2
MaxArgs == 3

\* Pieces of a symbol type list: the supported names, some of them with
\* spaces around or in another case, an unknown name and the empty piece.
ListPieces ==
    supportedSymbolTypes
    \cup { <<" ">> \o StrFunc, StrStruct \o <<" ">>, <<"S">> \o Tail(StrStruct),
           <<"b", "o", "g", "u", "s">>, <<>> }

SymbolTypeLists == { JoinText(ps, ",") : ps \in SeqsUpTo(ListPieces, MaxNames) }

PatternSources == { <<>>, <<"^", "A">>, <<"b">>, <<"(", "b">> }

Configs ==
    { [ZeroConfig EXCEPT !.FullDocs = o[1], !.NoDocs = o[2], !.NoTags = o[3],
                         !.Unexported = o[4], !.Exclude = ex, !.Only = on,
                         !.Matching = m, !.ExcludeMatching = em] :
        o \in [1..4 -> BOOLEAN],
        ex \in {<<>>, StrInterface, StrArrayType, <<"b", "o", "g", "u", "s">>},
        on \in {<<>>, JoinText(<<StrStruct, StrFunc>>, ","), <<"x">>},
        m \in PatternSources, em \in PatternSources }

Arguments == {"-help", "-version", "-unexported", "-bogus", "--", "dir1", "dir2"}

Environments == { {}, {"PKGDMP_UNEXPORTED"}, {"NO_COLOR"} }

CliArg == [fn |-> "none", pieces |-> <<>>, list |-> <<>>, cfg |-> ZeroConfig, args |-> <<>>]

InitCli ==
    /\ arg \in { [CliArg EXCEPT !.fn = "strToSymbolTypes", !.pieces = ps,
                                !.list = JoinText(ps, ",")] :
                    ps \in SeqsUpTo(ListPieces, MaxNames) }
               \cup { [CliArg EXCEPT !.fn = "ParserOptsFromCfg", !.cfg = c] : c \in Configs }
               \cup { [CliArg EXCEPT !.fn = "ParseFlags", !.args = a] :
                        a \in SeqsUpTo(Arguments, MaxArgs) }
    /\ out = <<>> /\ stdout = <<>>
    /\ pc = "ready"
    /\ parser = [filters |-> <<>>, fullDocs |-> FALSE, noDocs |-> FALSE]
    /\ dPkg = DocPackage(<<>>, <<>>, <<>>)
    /\ pkg = EmptyPackage(dPkg.Name)
    /\ sym = NoSymbol
    /\ verdict = NoVerdict

StrToSymbolTypes ==
    /\ pc = "ready" /\ arg.fn = "strToSymbolTypes"
    /\ out' = strToSymbolTypes(arg.list)
    /\ pc' = "returned"
    /\ UNCHANGED <<parser, dPkg, pkg, sym, verdict, arg, stdout>>

ParserOptsFromCfgCall ==
    /\ pc = "ready" /\ arg.fn = "ParserOptsFromCfg"
    /\ out' = ParserOptsFromCfg(arg.cfg)
    /\ pc' = "returned"
    /\ UNCHANGED <<parser, dPkg, pkg, sym, verdict, arg, stdout>>

ParseFlagsCall ==
    /\ pc = "ready" /\ arg.fn = "ParseFlags"
    /\ \E env \in Environments : out' = ParseFlags(arg.args, env)
    /\ pc' = "returned"
    /\ UNCHANGED <<parser, dPkg, pkg, sym, verdict, arg, stdout>>

NextCli == StrToSymbolTypes \/ ParserOptsFromCfgCall \/ ParseFlagsCall

SpecCli == InitCli /\ [][NextCli]_vars

(***************************************************************************)
(* SpecFilter: the filters of a parser are asked about one symbol, each    *)
(* filter on its own (SymbolFilter.Include) and all of them through        *)
(* Parser.includeSymbol.                                                   *)
(***************************************************************************)
KindSets ==
    { {}, {SymbolFunc}, {SymbolPackage, SymbolStructField, SymbolParamField},
      {SymbolConst, SymbolStructType, SymbolIdentType, SymbolResultField,
       SymbolReceiverField} }

Patterns == {PatternStartsA, PatternHasb}

PackageNameSets == {{}, {Nameb}}

AllFilters ==
    { FilterUnexported(a) : a \in FilterAction }
    \cup { FilterSymbolTypes(a, ks) : a \in FilterAction, ks \in KindSets }
    \cup { FilterMatchingIdents(a, p) : a \in FilterAction, p \in Patterns }
    \cup { FilterPackages(a, ns) : a \in FilterAction, ns \in PackageNameSets }

FieldKinds ==
    {SymbolStructField, SymbolParamField, SymbolResultField, SymbolReceiverField}

Symbols ==
    { PackageSym(n) : n \in {NameA, Nameb} }
    \cup { ConstSym(ns) : ns \in {<<NameA>>, <<Nameb>>, <<Nameb, NameA>>, <<NameUnderscore>>} }
    \cup { FuncSym(n, r) : n \in {NameA, Nameb, NameC, NameAb}, r \in BOOLEAN }
    \cup { TypeDefSym(n, t) : n \in {NameA, Nameb},
             t \in {"struct", "interface", "func", "map", "chan", "array", "int"} }
    \cup { FieldSym(ns, st) : ns \in {<<>>, <<NameA>>, <<Nameb>>}, st \in FieldKinds }

InitFilter ==
    /\ parser \in { [filters |-> fs, fullDocs |-> FALSE, noDocs |-> FALSE] :
                      fs \in SeqsUpTo(AllFilters, MaxFilters) }
    /\ sym \in Symbols
    /\ verdict = NoVerdict
    /\ dPkg = DocPackage(<<>>, <<>>, <<>>)
    /\ pkg = EmptyPackage(dPkg.Name)
    /\ pc = "ready"
    /\ arg = NoArg /\ out = <<>> /\ stdout = <<>>

\* f.Include(sym) of every filter of the parser, and p.includeSymbol(sym).
IncludeSymbol ==
    /\ pc = "ready"
    /\ verdict' = [called |-> TRUE,
                   each |-> [i \in 1..Len(parser.filters) |->
                                FilterInclude(parser.filters[i], sym)],
                   all |-> includeSymbol(parser.filters, sym)]
    /\ pc' = "done"
    /\ UNCHANGED <<parser, dPkg, pkg, sym, arg, out, stdout>>

NextFilter == IncludeSymbol

SpecFilter == InitFilter /\ [][NextFilter]_vars

(***************************************************************************)
(* Properties of SpecFilter.                                               *)
(***************************************************************************)
FilterIndexes == 1..Len(parser.filters)

\* Filter i returned, and returned true.
Returned(i) == ~verdict.each[i].panic
ReturnedTrue(i) == Returned(i) /\ verdict.each[i].val

\* C1: whenever includeSymbol returns for a symbol, it returns true iff every
\* filter of the parser's list returns true for the symbol; with an empty
\* list it returns true.
C1_IncludeIffEveryFilter ==
    (verdict.called /\ ~verdict.all.panic) =>
        /\ verdict.all.val <=> (\A i \in FilterIndexes : ReturnedTrue(i))
        /\ (Len(parser.filters) = 0 => verdict.all.val)

\* C1 witness: two filters, the first answers true and the second false, and
\* the symbol is not included.
C1_Witness ==
    /\ verdict.called
    /\ Len(parser.filters) = 2
    /\ ReturnedTrue(1)
    /\ Returned(2) /\ ~verdict.each[2].val
    /\ ~verdict.all.panic /\ ~verdict.all.val

FieldKindsUnfilterable == {SymbolParamField, SymbolResultField, SymbolReceiverField}

Filterable == SymbolTypeOf(sym) \notin FieldKindsUnfilterable \cup {SymbolPackage}

\* C9: FilterUnexported(Include) returns true for every symbol; for a
\* filterable symbol, FilterUnexported(Exclude) returns false iff the
\* symbol's IsExported is false, struct fields included.
C9_UnexportedFilter ==
    verdict.called =>
        \A i \in FilterIndexes :
            parser.filters[i].kind = "filterUnexported" =>
                /\ parser.filters[i].action = Include => ReturnedTrue(i)
                /\ (parser.filters[i].action = Exclude /\ Filterable /\ Returned(i)) =>
                       (~verdict.each[i].val <=> ~IsExported(sym).val)

\* C9 witness: FilterUnexported(Exclude) returns false for an unexported
\* struct field.
C9_Witness ==
    /\ verdict.called
    /\ sym = FieldSym(<<Nameb>>, SymbolStructField)
    /\ \E i \in FilterIndexes :
          /\ parser.filters[i] = FilterUnexported(Exclude)
          /\ Returned(i) /\ ~verdict.each[i].val

\* C10 as stated: for every symbol and set, the answers of
\* FilterSymbolTypes(Include, S) and FilterSymbolTypes(Exclude, S) differ.
C10_ComplementaryEverySymbol ==
    verdict.called =>
        \A i, j \in FilterIndexes :
            (/\ parser.filters[i].kind = "filterSymbolTypes"
             /\ parser.filters[j].kind = "filterSymbolTypes"
             /\ parser.filters[i].stMap = parser.filters[j].stMap
             /\ parser.filters[i].action # parser.filters[j].action) =>
                verdict.each[i].val # verdict.each[j].val

\* C10 amended: for a filterable symbol, FilterSymbolTypes(Include, S)
\* returns true iff the kind is in S and FilterSymbolTypes(Exclude, S) iff it
\* is not, so for every filterable symbol and set the two answers differ.
C10_KindFilter ==
    (verdict.called /\ Filterable) =>
        \A i \in FilterIndexes :
            parser.filters[i].kind = "filterSymbolTypes" =>
                /\ Returned(i)
                /\ parser.filters[i].action = Include =>
                       (verdict.each[i].val <=> SymbolTypeOf(sym) \in parser.filters[i].stMap)
                /\ parser.filters[i].action = Exclude =>
                       (verdict.each[i].val <=> SymbolTypeOf(sym) \notin parser.filters[i].stMap)
                /\ \A j \in FilterIndexes :
                       (/\ parser.filters[j].kind = "filterSymbolTypes"
                        /\ parser.filters[i].stMap = parser.filters[j].stMap
                        /\ parser.filters[i].action # parser.filters[j].action) =>
                           verdict.each[i].val # verdict.each[j].val

\* C10 witness: both actions over one set that holds the kind of a
\* filterable symbol; Include answers true and Exclude false.
C10_Witness ==
    /\ verdict.called
    /\ Filterable
    /\ Len(parser.filters) = 2
    /\ parser.filters[1].kind = "filterSymbolTypes"
    /\ parser.filters[2].kind = "filterSymbolTypes"
    /\ parser.filters[1].action = Include
    /\ parser.filters[2].action = Exclude
    /\ parser.filters[1].stMap = parser.filters[2].stMap
    /\ SymbolTypeOf(sym) \in parser.filters[1].stMap
    /\ ReturnedTrue(1) /\ ~verdict.each[2].val

\* The identifier has the literal of the expression at its start (anchored)
\* or somewhere in it.
Matches(p, id) ==
    IF p.anchored
    THEN Len(id) >= Len(p.lit) /\ SubSeq(id, 1, Len(p.lit)) = p.lit
    ELSE \E k \in 1..Len(id) :
            k + Len(p.lit) - 1 <= Len(id) /\ SubSeq(id, k, k + Len(p.lit) - 1) = p.lit

\* C11: for a filterable symbol, FilterMatchingIdents(Include, p) returns true
\* iff the identifier matches p and FilterMatchingIdents(Exclude, p) iff it
\* does not; an Include pattern followed by an Exclude pattern retains
\* exactly the symbols that match the first and not the second.
C11_MatchingIdents ==
    (verdict.called /\ Filterable) =>
        /\ \A i \in FilterIndexes :
              parser.filters[i].kind = "filterMatchingIdents" =>
                  /\ Returned(i)
                  /\ verdict.each[i].val
                        <=> ((parser.filters[i].action = Include)
                                <=> Matches(parser.filters[i].pattern, Ident(sym).val))
        /\ \A p, q \in Patterns :
              parser.filters = <<FilterMatchingIdents(Include, p),
                                 FilterMatchingIdents(Exclude, q)>> =>
                  /\ ~verdict.all.panic
                  /\ verdict.all.val
                        <=> (Matches(p, Ident(sym).val) /\ ~Matches(q, Ident(sym).val))

\* C11 witness: a function whose name matches both the Include and the
\* Exclude pattern passes the first filter, fails the second and is dropped.
C11_Witness ==
    /\ verdict.called
    /\ sym = FuncSym(NameAb, FALSE)
    /\ parser.filters = <<FilterMatchingIdents(Include, PatternStartsA),
                          FilterMatchingIdents(Exclude, PatternHasb)>>
    /\ ReturnedTrue(1)
    /\ Returned(2) /\ ~verdict.each[2].val
    /\ ~verdict.all.panic /\ ~verdict.all.val

Passing(s) ==
    \A i \in 1..Len(parser.filters) :
        LET r == FilterInclude(parser.filters[i], s) IN ~r.panic /\ r.val

\* The TypeDef.Type a type expression of a recognised shape is given.
TypeTag(e) ==
    CASE e.shape = "StructType" -> "struct"
      [] e.shape = "InterfaceType" -> "interface"
      [] e.shape = "FuncType" -> "func"
      [] e.shape = "MapType" -> "map"
      [] e.shape = "ChanType" -> "chan"
      [] e.shape = "ArrayType" -> "array"
      [] OTHER -> e.Ident

Recognised(t) == t.Expr.shape \in typeShapes

TypePasses(t) == Recognised(t) /\ Passing(TypeDefSym(t.Name, TypeTag(t.Expr)))

\* The source types whose TypeDef the filters retain, in source order.
RetainedTypes == SelectSeq(dPkg.Types, LAMBDA t : TypePasses(t))

\* a is b with some elements removed.
RECURSIVE IsSubsequence(_, _)
IsSubsequence(a, b) ==
    IF Len(a) = 0 THEN TRUE
    ELSE IF Len(b) = 0 THEN FALSE
    ELSE IF Head(a) = Head(b) THEN IsSubsequence(Tail(a), Tail(b))
    ELSE IsSubsequence(a, Tail(b))

\* The methods of a source type as Funcs, and those of them that pass.
MethodsOf(t) == [k \in 1..Len(t.Methods) |-> parseFunc(parser, t.Methods[k]).val]
PassingMethodsOf(t) == SelectSeq(MethodsOf(t), LAMBDA f : Passing(FuncSym(f.Name, TRUE)))

\* C3 as stated: when a type's TypeDef is excluded and methods of it pass the
\* filters, the Package has no TypeDef of that type and the passing methods
\* are in Package.Funcs, receiver set, in declaration order.
C3_PromotedMethods ==
    pc = "done" =>
        /\ Len(pkg.Types) = Len(RetainedTypes)
        /\ \A k \in 1..Len(dPkg.Types) :
              LET t == dPkg.Types[k]
              IN  (Recognised(t) /\ ~TypePasses(t)) =>
                     /\ \A f \in 1..Len(PassingMethodsOf(t)) :
                            Len(PassingMethodsOf(t)[f].Receiver) = 1
                     /\ IsSubsequence(PassingMethodsOf(t), pkg.Funcs)

\* C4 as stated: under the one filter FilterSymbolTypes(Exclude, {func}) no
\* free function is in Package.Funcs and every method of a retained type is
\* attached to its TypeDef.
C4_ExcludeFuncKeepsMethods ==
    (pc = "done" /\ parser.filters = <<FilterSymbolTypes(Exclude, {SymbolFunc})>>) =>
        /\ \A k \in 1..Len(pkg.Funcs) : Len(pkg.Funcs[k].Receiver) = 1
        /\ Len(pkg.Types) = Len(RetainedTypes)
        /\ \A k \in 1..Len(pkg.Types) :
              SelectSeq(pkg.Types[k].Methods, LAMBDA f : Len(f.Receiver) = 1)
                  = MethodsOf(RetainedTypes[k])

\* The const groups of the input in the order Parser.Package meets them: the
\* package's own, then those of each type.
SourceGroups == dPkg.Consts \o Concat([k \in 1..Len(dPkg.Types) |-> dPkg.Types[k].Consts])

SourceConsts(g) == [k \in 1..Len(g.Specs) |-> [Names |-> g.Specs[k].Names, valSpec |-> g.Specs[k].Pos]]
PassingConsts(g) == SelectSeq(SourceConsts(g), LAMBDA c : Passing(ConstSym(c.Names)))

ResultConsts(cg) == [k \in 1..Len(cg.Consts) |-> [Names |-> cg.Consts[k].Names, valSpec |-> cg.Consts[k].valSpec]]

\* C5: Package.Consts is the list of the source groups that have a passing
\* Const, in order, and each group holds exactly its passing Consts in their
\* source order.
C5_ConstGroups ==
    pc = "done" =>
        [k \in 1..Len(pkg.Consts) |-> ResultConsts(pkg.Consts[k])]
            = SelectSeq([k \in 1..Len(SourceGroups) |-> PassingConsts(SourceGroups[k])],
                        LAMBDA cs : Len(cs) # 0)

\* C5 witness: of two groups, the first with no passing Const and the second
\* with an excluded first and a retained second spec, only the second group
\* is in the Package and holds only the retained Const.
C5_Witness ==
    /\ pc = "done"
    /\ Len(dPkg.Consts) = 2
    /\ Len(PassingConsts(dPkg.Consts[1])) = 0
    /\ Len(dPkg.Consts[2].Specs) = 2
    /\ ~Passing(ConstSym(dPkg.Consts[2].Specs[1].Names))
    /\ Len(pkg.Consts) = 1
    /\ Len(pkg.Consts[1].Consts) = 1
    /\ pkg.Consts[1].Consts[1].valSpec = 2

FuncKey(f) == [Name |-> f.Name, Params |-> f.Params, Receiver |-> f.Receiver]

\* C6: for every type of a recognised shape, whether or not its TypeDef is
\* retained, a constructor function is in Package.Funcs iff it passes the
\* filters, and a const group is in Package.Consts, cut down to its passing
\* Consts, iff it has a passing Const.
C6_AssociatedDecoupled ==
    pc = "done" =>
        \A k \in 1..Len(dPkg.Types) :
            LET t == dPkg.Types[k]
            IN  Recognised(t) =>
                   /\ \A j \in 1..Len(t.Funcs) :
                          LET f == parseFunc(parser, t.Funcs[j]).val
                          IN  Passing(FuncSym(f.Name, FALSE))
                                  <=> \E n \in 1..Len(pkg.Funcs) :
                                          FuncKey(pkg.Funcs[n]) = FuncKey(f)
                   /\ \A j \in 1..Len(t.Consts) :
                          Len(PassingConsts(t.Consts[j])) # 0
                              <=> \E n \in 1..Len(pkg.Consts) :
                                      ResultConsts(pkg.Consts[n]) = PassingConsts(t.Consts[j])

\* C6 witness: the one type of the input is excluded, and a constructor and a
\* const group of it are in the Package.
C6_Witness ==
    /\ pc = "done"
    /\ Len(dPkg.Types) = 1
    /\ Recognised(dPkg.Types[1]) /\ ~TypePasses(dPkg.Types[1])
    /\ Len(dPkg.Consts) = 0 /\ Len(dPkg.Funcs) = 0
    /\ Len(pkg.Types) = 0
    /\ Len(pkg.Funcs) # 0
    /\ Len(pkg.Consts) # 0

SourceFields(t) ==
    [k \in 1..Len(t.Expr.Fields) |->
        [Names |-> t.Expr.Fields[k].Names, Type |-> t.Expr.Fields[k].Type,
         symbolType |-> SymbolStructField]]

\* C7: the Fields of a retained struct are exactly the source fields that
\* pass all filters as struct fields, in source order.
C7_StructFields ==
    pc = "done" =>
        /\ Len(pkg.Types) = Len(RetainedTypes)
        /\ \A k \in 1..Len(pkg.Types) :
              RetainedTypes[k].Expr.shape = "StructType" =>
                  [j \in 1..Len(pkg.Types[k].Fields) |->
                      [Names |-> pkg.Types[k].Fields[j].Names,
                       Type |-> pkg.Types[k].Fields[j].Type,
                       symbolType |-> pkg.Types[k].Fields[j].symbolType]]
                      = SelectSeq(SourceFields(RetainedTypes[k]),
                                  LAMBDA f : Passing(FieldSym(f.Names, SymbolStructField)))

\* C7 witness: a retained struct of three fields whose middle field is
\* dropped; the first and the third are kept in that order.
C7_Witness ==
    /\ pc = "done"
    /\ Len(dPkg.Types) = 1 /\ Len(pkg.Types) = 1
    /\ Len(dPkg.Types[1].Expr.Fields) = 3
    /\ Len(pkg.Types[1].Fields) = 2
    /\ pkg.Types[1].Fields[1].Type = TypeText(1)
    /\ pkg.Types[1].Fields[2].Type = TypeText(3)

SourceInterfaceMethods(t) == SelectSeq(t.Expr.Methods, LAMBDA m : m.IsFunc)

\* C8: a retained interface lists, before anything else in Methods, every
\* method of the source interface in source order, none with a receiver,
\* whatever the filters say about the method's name.
C8_InterfaceMethods ==
    pc = "done" =>
        /\ Len(pkg.Types) = Len(RetainedTypes)
        /\ \A k \in 1..Len(pkg.Types) :
              RetainedTypes[k].Expr.shape = "InterfaceType" =>
                  LET src == SourceInterfaceMethods(RetainedTypes[k])
                  IN  /\ Len(pkg.Types[k].Methods) >= Len(src)
                      /\ \A j \in 1..Len(src) :
                            /\ pkg.Types[k].Methods[j].Name = src[j].Names[1]
                            /\ Len(pkg.Types[k].Methods[j].Receiver) = 0
                            /\ ~pkg.Types[k].Methods[j].funcKw

\* C8 witness: a retained interface keeps a method that the filters would
\* not pass as a function.
C8_Witness ==
    /\ pc = "done"
    /\ Len(dPkg.Types) = 1 /\ Len(pkg.Types) = 1
    /\ dPkg.Types[1].Expr.shape = "InterfaceType"
    /\ Len(dPkg.Types[1].Expr.Methods) = 3
    /\ \E j \in 1..Len(pkg.Types[1].Methods) :
          ~Passing(FuncSym(pkg.Types[1].Methods[j].Name, FALSE))

\* The filter lists that are permutations of fs.
FilterPermutations(fs) ==
    { [i \in 1..Len(fs) |-> fs[pi[i]]] :
        pi \in { f \in [1..Len(fs) -> 1..Len(fs)] :
                    \A i, j \in 1..Len(fs) : f[i] = f[j] => i = j } }

\* What Parser.Package did in this run: the Package, or a panic.
Outcome == IF pc = "done" THEN Ok(pkg) ELSE Panic

\* C13 as stated: a parser whose filter list is a permutation of this
\* parser's list gives, on the same input, the same outcome: the same consts,
\* types, struct fields, methods and functions.
C13_OrderIndependent ==
    pc # "ready" =>
        \A q \in FilterPermutations(parser.filters) :
            Package([parser EXCEPT !.filters = q], dPkg) = Outcome

\* C13, the part that holds: two permutations that both return a Package
\* return the same Package.
C13_SameWhenBothReturn ==
    pc = "done" =>
        \A q \in FilterPermutations(parser.filters) :
            LET r == Package([parser EXCEPT !.filters = q], dPkg)
            IN  ~r.panic => r.val = pkg

\* A const value spec of the input, in the package's groups or in those of
\* a type, has a value expression that is no basic literal, call or
\* identifier.
HasUnrecognisedValue ==
    \E g \in 1..Len(SourceGroups) :
        \E k \in 1..Len(SourceGroups[g].Specs) :
            \E v \in 1..Len(SourceGroups[g].Specs[k].Values) :
                SourceGroups[g].Specs[k].Values[v] \notin valueShapes

\* C14 as stated: Parser.Package ends by returning a Package with a nil error
\* (pc = "done") or no Package with an error (pc = "error"), and with an
\* unrecognised const value expression in the input it returns the error.
C14_ErrorNotPanic ==
    pc # "ready" =>
        /\ pc \in {"done", "error"}
        /\ HasUnrecognisedValue => pc = "error"

\* C15: a type whose expression has none of the recognised shapes gives no
\* TypeDef and no error, and the types after it are processed: the TypeDefs
\* of the Package are those of the recognised types that pass the filters,
\* in source order; Package never returns an error, and without filters
\* and without an unrecognised const value it returns whatever the shapes
\* of the types are.
C15_UnrecognisedTypeSkipped ==
    /\ pc # "error"
    /\ (pc # "ready" /\ Len(parser.filters) = 0 /\ ~HasUnrecognisedValue) => pc = "done"
    /\ pc = "done" =>
          /\ Len(pkg.Types) = Len(RetainedTypes)
          /\ \A k \in 1..Len(pkg.Types) :
                /\ pkg.Types[k].Name = RetainedTypes[k].Name
                /\ pkg.Types[k].Type = TypeTag(RetainedTypes[k].Expr)

\* C15 witness: the first of two types has an unrecognised shape, and the
\* Package holds the TypeDef of the second and none of the first.
C15_Witness ==
    /\ pc = "done"
    /\ Len(dPkg.Types) = 2
    /\ ~Recognised(dPkg.Types[1])
    /\ Len(pkg.Types) = 1
    /\ pkg.Types[1].Name = dPkg.Types[2].Name
    /\ pkg.Types[1].Name # dPkg.Types[1].Name

(***************************************************************************)
(* Documentation modes.                                                    *)
(***************************************************************************)
FieldDocs(fl) == UNION { {fl[i].Doc, fl[i].Comment} : i \in 1..Len(fl) }

FuncDocs(f) ==
    {f.Doc, f.Comment} \cup FieldDocs(f.Receiver) \cup FieldDocs(f.Params)
        \cup FieldDocs(f.Results)

TypeDocs(td) ==
    {td.Doc} \cup FieldDocs(td.Fields) \cup FieldDocs(td.Params) \cup FieldDocs(td.Results)
        \cup UNION { FuncDocs(td.Methods[k]) : k \in 1..Len(td.Methods) }

\* Every Doc and Comment string of the Package.
PackageDocs ==
    {pkg.Doc}
        \cup { pkg.Consts[k].Doc : k \in 1..Len(pkg.Consts) }
        \cup UNION { TypeDocs(pkg.Types[k]) : k \in 1..Len(pkg.Types) }
        \cup UNION { FuncDocs(pkg.Funcs[k]) : k \in 1..Len(pkg.Funcs) }

\* What the claim asks of a doc string whose original text is text.
Stripped(text) ==
    LET t == TrimSpace(text)
    IN  IF Len(t) >= 2 /\ t[1] = "//" /\ t[2] = " " THEN SubSeq(t, 3, Len(t)) ELSE t

ExpectedDoc(text) ==
    IF parser.noDocs THEN <<>>
    ELSE IF parser.fullDocs THEN Stripped(text)
    ELSE Synopsis(Stripped(text))

FieldsDocumented(fl, afl) ==
    \A i \in 1..Len(fl) :
        \E j \in 1..Len(afl) :
            /\ afl[j].Names = fl[i].Names /\ afl[j].Type = fl[i].Type
            /\ fl[i].Doc = ExpectedDoc(afl[j].Doc)
            /\ fl[i].Comment = ExpectedDoc(afl[j].Comment)

\* f is the Func of the doc.Func df; a doc.Func has no line comment.
FuncDocumented(f, df) ==
    /\ f.Name = df.Name
    /\ f.Doc = ExpectedDoc(df.Doc)
    /\ f.Comment = <<>>
    /\ FieldsDocumented(f.Receiver, df.Recv)
    /\ FieldsDocumented(f.Params, df.Params)
    /\ FieldsDocumented(f.Results, df.Results)

\* m is the Func of the entry im of an interface's method list.
InterfaceMethodDocumented(m, im) ==
    /\ im.Names = <<m.Name>>
    /\ m.Doc = ExpectedDoc(im.Doc)
    /\ m.Comment = ExpectedDoc(im.Comment)
    /\ FieldsDocumented(m.Params, im.Params)
    /\ FieldsDocumented(m.Results, im.Results)

TypeDocumented(td, t) ==
    /\ td.Name = t.Name
    /\ td.Doc = ExpectedDoc(t.Doc)
    /\ FieldsDocumented(td.Fields, t.Expr.Fields)
    /\ FieldsDocumented(td.Params, t.Expr.Params)
    /\ FieldsDocumented(td.Results, t.Expr.Results)
    /\ \A k \in 1..Len(td.Methods) :
          \/ \E j \in 1..Len(t.Methods) : FuncDocumented(td.Methods[k], t.Methods[j])
          \/ /\ td.Type = "interface"
             /\ \E j \in 1..Len(t.Expr.Methods) :
                   InterfaceMethodDocumented(td.Methods[k], t.Expr.Methods[j])

\* The const groups and the functions of the source: those of the package
\* and those go/doc has put under a type.
SourceGroupSet == { SourceGroups[k] : k \in 1..Len(SourceGroups) }

SourceFuncs ==
    { dPkg.Funcs[k] : k \in 1..Len(dPkg.Funcs) }
        \cup UNION { { dPkg.Types[i].Funcs[k] : k \in 1..Len(dPkg.Types[i].Funcs) } :
                       i \in 1..Len(dPkg.Types) }

\* C20: when Package returns, every Doc and Comment string of the result
\* (package, const groups, types, fields, functions, interface methods) is
\* empty under the no-docs option, with or without full-docs; under
\* full-docs alone it is the original text, trimmed of surrounding
\* whitespace and of a leading "// "; under neither option it is the
\* synopsis of that trimmed text.
C20_DocModes ==
    pc = "done" =>
        /\ parser.noDocs => PackageDocs \subseteq {<<>>}
        /\ pkg.Doc = ExpectedDoc(dPkg.Doc)
        /\ \A k \in 1..Len(pkg.Consts) :
              \E g \in SourceGroupSet :
                  /\ \E i \in 1..Len(g.Specs) : g.Specs[i].Pos = pkg.Consts[k].Consts[1].valSpec
                                                /\ g.Specs[i].Names = pkg.Consts[k].Consts[1].Names
                  /\ pkg.Consts[k].Doc = ExpectedDoc(g.Doc)
        /\ \A k \in 1..Len(pkg.Types) :
              \E i \in 1..Len(dPkg.Types) : TypeDocumented(pkg.Types[k], dPkg.Types[i])
        /\ \A k \in 1..Len(pkg.Funcs) :
              \E df \in SourceFuncs : FuncDocumented(pkg.Funcs[k], df)

\* C20 witness: a parser with full-docs alone has returned the package of
\* a documented source; the package doc lost its surrounding whitespace and
\* its comment marker, and the struct's first field carries a doc and a
\* line comment.
C20_Witness ==
    /\ pc = "done"
    /\ parser.fullDocs /\ ~parser.noDocs
    /\ dPkg.Doc = <<" ", "//", " ", "Pkg", " ", "does", ".", " ", "More", ".", "\n">>
    /\ pkg.Doc = <<"Pkg", " ", "does", ".", " ", "More", ".">>
    /\ Len(pkg.Types) = 2
    /\ Len(pkg.Types[1].Fields) > 0
    /\ pkg.Types[1].Fields[1].Doc = <<"Short">>
    /\ pkg.Types[1].Fields[1].Comment = pkg.Doc
    /\ Len(pkg.Types[2].Methods) = 2
    /\ pkg.Types[2].Methods[1].Comment = <<"Short">>

\* Both options set: the documented source yields no doc string at all.
C20_WitnessBothOptions ==
    /\ pc = "done"
    /\ parser.fullDocs /\ parser.noDocs
    /\ dPkg \in DocumentedPackages
    /\ Len(pkg.Types) = 2 /\ Len(pkg.Consts) = 2 /\ Len(pkg.Funcs) = 1

\* Neither option set: the package doc is the first sentence.
C20_WitnessSynopsis ==
    /\ pc = "done"
    /\ ~parser.fullDocs /\ ~parser.noDocs
    /\ dPkg.Doc = <<" ", "//", " ", "Pkg", " ", "does", ".", " ", "More", ".", "\n">>
    /\ pkg.Doc = <<"Pkg", " ", "does.">>
    /\ Len(pkg.Types) = 2
    /\ pkg.Types[2].Doc = <<"one">>

(***************************************************************************)
(* Properties of SpecPrint.  A top-level declaration of the text starts at *)
(* "const ", at "type " or at a "func " that no receiver follows.          *)
(***************************************************************************)
TopLevel(i) ==
    \/ out[i] \in {"const ", "type "}
    \/ out[i] = "func " /\ i < Len(out) /\ out[i + 1] # "("

\* The positions of the top-level declarations in the text, ascending.
Tops == SelectSeq([i \in 1..Len(out) |-> i], TopLevel)

\* A declaration starts with its doc comment if it has one: the number of
\* strings of the text the doc comment of a declaration takes.
DocLen(doc) == Len(docComment(doc))

\* The Doc of the k-th top-level declaration of the Package.
TopDoc(k) ==
    IF k <= Len(pkg.Consts) THEN pkg.Consts[k].Doc
    ELSE IF k <= Len(pkg.Consts) + Len(pkg.Types) THEN pkg.Types[k - Len(pkg.Consts)].Doc
    ELSE pkg.Funcs[k - Len(pkg.Consts) - Len(pkg.Types)].Doc

\* C16: the text of Package.String starts with the package clause (after
\* the package's doc comment), then holds the const groups, then the
\* TypeDefs, then the free functions, each list in its stored order, every
\* declaration (with its doc comment) after one blank line, and no other
\* top-level declaration; it ends with a line break.
C16_PackageTextOrder ==
    pc = "printed" =>
        LET nc == Len(pkg.Consts)
            nt == Len(pkg.Types)
            nf == Len(pkg.Funcs)
        IN  /\ out[DocLen(pkg.Doc) + 1] = "package "
            /\ out[DocLen(pkg.Doc) + 2] = NameString(pkg.Name)
            /\ Len(Tops) = nc + nt + nf
            /\ \A k \in 1..nc :
                  /\ out[Tops[k]] = "const "
                  /\ IF Len(pkg.Consts[k].Consts) = 1
                     THEN out[Tops[k] + 1] = printValueSpec(pkg.Consts[k].Consts[1].valSpec)
                     ELSE /\ out[Tops[k] + 1] = "(\n"
                          /\ out[Tops[k] + 3] = printValueSpec(pkg.Consts[k].Consts[1].valSpec)
            /\ \A k \in 1..nt :
                  /\ out[Tops[nc + k]] = "type "
                  /\ out[Tops[nc + k] + 1] = NameString(pkg.Types[k].Name)
            /\ \A k \in 1..nf :
                  /\ out[Tops[nc + nt + k]] = "func "
                  /\ out[Tops[nc + nt + k] + 1] = NameString(pkg.Funcs[k].Name)
            /\ \A k \in 1..Len(Tops) : out[Tops[k] - DocLen(TopDoc(k)) - 1] = "\n\n"
            /\ out[Len(out)] = "\n"

\* C16 witness: a text with a const group, two types, the second with
\* methods, and two free functions.
C16_Witness ==
    /\ pc = "printed"
    /\ Len(pkg.Doc) = 0
    /\ Len(pkg.Consts) = 1
    /\ Len(pkg.Types) = 2
    /\ Len(pkg.Types[2].Methods) = 2
    /\ Len(pkg.Funcs) >= 2
    /\ Len(Tops) = 3 + Len(pkg.Funcs)

\* A documented package: the text starts with the package's doc comment and
\* the declarations carry theirs.
C16_WitnessDocumented ==
    /\ pc = "printed"
    /\ out[1] = "// "
    /\ Len(pkg.Consts) = 2 /\ Len(pkg.Types) = 2 /\ Len(pkg.Funcs) = 1
    /\ Len(pkg.Types[1].Doc) # 0 /\ Len(pkg.Funcs[1].Doc) # 0

\* The positions in the text, from the header of TypeDef number k up to the
\* next top-level declaration, where a method declaration starts.
TypeSegmentEnd(k) ==
    IF Len(pkg.Consts) + k < Len(Tops) THEN Tops[Len(pkg.Consts) + k + 1] - 1 ELSE Len(out)

MethodStarts(k) ==
    SelectSeq([i \in 1..Len(out) |-> i],
              LAMBDA i : /\ i > Tops[Len(pkg.Consts) + k]
                         /\ i < TypeSegmentEnd(k)
                         /\ out[i] = "func " /\ out[i + 1] = "(")

\* C17 as stated: for every TypeDef of the Package that is no interface, the
\* text holds after the type header each method of TypeDef.Methods as a
\* declaration of its own after a blank line, in order.
C17_MethodsRendered ==
    pc = "printed" =>
        \A k \in 1..Len(pkg.Types) :
            pkg.Types[k].Type # "interface" =>
                /\ Len(MethodStarts(k)) = Len(pkg.Types[k].Methods)
                /\ \A m \in 1..Len(MethodStarts(k)) :
                      /\ out[MethodStarts(k)[m] - DocLen(pkg.Types[k].Methods[m].Doc) - 1]
                            = "\n\n"
                      /\ out[MethodStarts(k)[m] + 6] = NameString(pkg.Types[k].Methods[m].Name)

\* C17, the part that holds: the methods of a struct and of a type defined
\* by an identifier are rendered as the claim states.
C17_StructAndAliasMethodsRendered ==
    pc = "printed" =>
        \A k \in 1..Len(pkg.Types) :
            pkg.Types[k].Type \notin {"interface", "func", "map", "chan", "array"} =>
                /\ Len(MethodStarts(k)) = Len(pkg.Types[k].Methods)
                /\ \A m \in 1..Len(MethodStarts(k)) :
                      /\ out[MethodStarts(k)[m] - DocLen(pkg.Types[k].Methods[m].Doc) - 1]
                            = "\n\n"
                      /\ out[MethodStarts(k)[m] + 6] = NameString(pkg.Types[k].Methods[m].Name)

(***************************************************************************)
(* Properties of SpecHelpers.                                              *)
(***************************************************************************)
Parenthesised == Len(out) >= 2 /\ out[1] = "(" /\ out[Len(out)] = ")"

\* C18 as stated: a result list is rendered without parentheses iff it is
\* one field without names; any other list is wrapped in parentheses.
C18_ResultsParentheses ==
    (pc = "returned" /\ arg.fn = "resultsList" /\ Len(arg.fl) # 0) =>
        (~Parenthesised <=> (Len(arg.fl) = 1 /\ Len(arg.fl[1].Names) = 0))

\* C18, the part that holds: a list of two or more fields is wrapped in
\* parentheses, the fields joined by ", "; a list of one field is not.
C18_ParenthesesByArity ==
    (pc = "returned" /\ arg.fn = "resultsList" /\ Len(arg.fl) # 0) =>
        /\ Parenthesised <=> Len(arg.fl) > 1
        /\ Len(SelectSeq(out, LAMBDA t : t = ", "))
              = Len(arg.fl) - 1
                  + Len(SelectSeq(arg.fl, LAMBDA f : Len(f.Names) = 2))

\* In the text of a comment: the strings that start a line, and the words.
StartsLine(t) == t \in {"// ", "\n// "}
IsWord(t) == ~StartsLine(t) /\ ~IsSpace(t)

\* The length of the comment line that position i of the text is on, from
\* its "// " up to and including position i (a line break belongs to the
\* line it ends).
RECURSIVE LineLenAt(_)
LineLenAt(i) == IF StartsLine(out[i]) THEN 3 ELSE Len(out[i]) + LineLenAt(i - 1)

\* The length of the line being written when the word at position j was
\* placed: the line of the string before the word, or, if the word starts a
\* new line, the line that was left.
LineLenBefore(j) == IF out[j - 1] = "\n// " THEN LineLenAt(j - 2) ELSE LineLenAt(j - 1)

SingleLineDoc ==
    /\ arg.fn = "mkComment"
    /\ Len(TrimSpace(arg.s)) # 0
    /\ \A k \in 1..Len(TrimSpace(arg.s)) : TrimSpace(arg.s)[k] # "\n"

\* C19 as stated: for a non-empty doc string of one line, a word is placed
\* on the current comment line iff the length of that line plus the length
\* of the word plus one is under 80, on the first line and on every later
\* line alike; the text ends with one line break.
C19_WordWrap ==
    (pc = "returned" /\ SingleLineDoc) =>
        /\ \A j \in 2..Len(out) :
              IsWord(out[j]) =>
                  (out[j - 1] # "\n// " <=> LineLenBefore(j) + Len(out[j]) + 1 < LineWidth)
        /\ out[Len(out)] = "\n" /\ out[Len(out) - 1] # "\n"

\* C19, the part that holds: the threshold is 80 for a word that follows the
\* first line of the comment and 79 for a word that follows a later line.
C19_WordWrapCountsBreak ==
    (pc = "returned" /\ SingleLineDoc) =>
        /\ \A j \in 2..Len(out) :
              IsWord(out[j]) =>
                  LET first == \A i \in 2..(j - 2) : ~StartsLine(out[i])
                  IN  out[j - 1] # "\n// "
                         <=> LineLenBefore(j) + Len(out[j]) + 1
                                < (IF first THEN LineWidth ELSE LineWidth - 1)
        /\ out[Len(out)] = "\n" /\ out[Len(out) - 1] # "\n"

\* The upper-case letters among the characters of the model's identifiers.
UpperLetters == {"A", "B", "C", "X"}

LowerLetters == {"a", "b", "c", "x"}

ListedNames == SelectSeq([k \in 1..Len(arg.pieces) |-> TrimSpace(arg.pieces[k])],
                         LAMBDA n : Len(n) # 0)

KindOfName(n) == (CHOOSE e \in symbolTypeMap : e.key = n).val

\* C22: a list all of whose names are names the usage text lists under
\* SYMBOL TYPES is accepted by strToSymbolTypes and yields the symbol kinds
\* of the names in order; a list with a name that is not listed yields an
\* "unsupported symbol type" error.
C22_SymbolTypeNames ==
    (pc = "returned" /\ arg.fn = "strToSymbolTypes") =>
        IF \A k \in 1..Len(ListedNames) : ListedNames[k] \in supportedSymbolTypes
        THEN /\ out.err = ""
             /\ out.val = [k \in 1..Len(ListedNames) |-> KindOfName(ListedNames[k])]
        ELSE out.err = "unsupported symbol type string"

\* C22, what the code does: a name is looked up in lower case, so a list is
\* accepted exactly when the lower-case form of each name is a key of
\* symbolTypeMap, which no name with an upper-case letter in it can be.
LowerCaseName(n) == [k \in 1..Len(n) |-> ToLower(n[k])]

C22_LowerCaseLookup ==
    (pc = "returned" /\ arg.fn = "strToSymbolTypes") =>
        IF \A k \in 1..Len(ListedNames) : LowerCaseName(ListedNames[k]) \in supportedSymbolTypes
        THEN /\ out.err = ""
             /\ out.val = [k \in 1..Len(ListedNames) |->
                              KindOfName(LowerCaseName(ListedNames[k]))]
        ELSE out.err = "unsupported symbol type string"

\* The filters of the symbol-filters option among the options returned.
ReturnedFilters ==
    Concat([k \in 1..Len(out.opts) |->
               IF out.opts[k].opt = "symbolFilters" THEN out.opts[k].f ELSE <<>>])

\* The five filters of the composition with the condition of each.
FilterSlots ==
    << [kind |-> "filterUnexported", action |-> Exclude, on |-> ~arg.cfg.Unexported],
       [kind |-> "filterSymbolTypes", action |-> Exclude, on |-> arg.cfg.Exclude # <<>>],
       [kind |-> "filterSymbolTypes", action |-> Include, on |-> arg.cfg.Only # <<>>],
       [kind |-> "filterMatchingIdents", action |-> Include, on |-> arg.cfg.Matching # <<>>],
       [kind |-> "filterMatchingIdents", action |-> Exclude,
        on |-> arg.cfg.ExcludeMatching # <<>>] >>

\* C23: when ParserOptsFromCfg returns options, the doc options (and the
\* no-tags option) come first, each present iff its field is set, and after
\* them at most one symbol-filters option, present iff there is a filter;
\* its filters are, in this order, unexported-Exclude iff Unexported is
\* false, kind-Exclude iff Exclude is set, kind-Include iff Only is set,
\* ident-Include iff Matching is set, ident-Exclude iff ExcludeMatching is
\* set.  The default configuration yields exactly one option holding
\* exactly the unexported-Exclude filter.
C23_FilterComposition ==
    (pc = "returned" /\ arg.fn = "ParserOptsFromCfg" /\ out.err = "") =>
        /\ [k \in 1..Len(out.opts) |-> out.opts[k].opt]
              = SelectSeq(<<"fullDocs", "noDocs", "noTags", "symbolFilters">>,
                          LAMBDA o : CASE o = "fullDocs" -> arg.cfg.FullDocs
                                       [] o = "noDocs" -> arg.cfg.NoDocs
                                       [] o = "noTags" -> arg.cfg.NoTags
                                       [] OTHER -> \E k \in 1..5 : FilterSlots[k].on)
        /\ [k \in 1..Len(ReturnedFilters) |->
               [kind |-> ReturnedFilters[k].kind, action |-> ReturnedFilters[k].action,
                on |-> TRUE]]
              = SelectSeq(FilterSlots, LAMBDA f : f.on)
        /\ arg.cfg = ZeroConfig => out.opts = <<WithSymbolFilters(<<FilterUnexported(Exclude)>>)>>

\* C23 witness: options were returned for a configuration with full docs
\* and all five filters.
C23_Witness ==
    /\ pc = "returned" /\ arg.fn = "ParserOptsFromCfg" /\ out.err = ""
    /\ arg.cfg.FullDocs /\ ~arg.cfg.NoDocs /\ ~arg.cfg.Unexported
    /\ Len(out.opts) = 2
    /\ Len(ReturnedFilters) = 5
    /\ ReturnedFilters[2].stMap = {SymbolInterfaceType}
    /\ ReturnedFilters[3].stMap = {SymbolStructType, SymbolFunc}
    /\ ReturnedFilters[4].pattern = [anchored |-> TRUE, lit |-> <<"A">>]

\* The patterns of the model that are no valid regular expression.
InvalidPattern(src) == src = <<"(", "b">>

\* C24: when the Matching or the ExcludeMatching pattern of the
\* configuration is not a valid regular expression, ParserOptsFromCfg
\* returns a non-nil error that names the pattern that failed, and returns
\* no options.
C24_NamesFailedPattern ==
    (/\ pc = "returned" /\ arg.fn = "ParserOptsFromCfg"
     /\ (InvalidPattern(arg.cfg.Matching) \/ InvalidPattern(arg.cfg.ExcludeMatching))) =>
        /\ out.err \in {"parsing matching regular expression",
                        "parsing exclude matching regular expression"}
        /\ InvalidPattern(arg.cfg.Matching) <=> out.err = "parsing matching regular expression"
        /\ out.opts = <<>>

\* C24 as amended: when the Matching or the ExcludeMatching pattern of the
\* configuration is not a valid regular expression, ParserOptsFromCfg
\* returns a non-nil error and no options at all; the error names the
\* pattern that failed (Matching before ExcludeMatching), unless a symbol
\* type list of the configuration was rejected, in which case it is the
\* error of that list.
C24_InvalidPattern ==
    (/\ pc = "returned" /\ arg.fn = "ParserOptsFromCfg"
     /\ (InvalidPattern(arg.cfg.Matching) \/ InvalidPattern(arg.cfg.ExcludeMatching))) =>
        /\ out.err # ""
        /\ out.opts = <<>>
        /\ out.err =
             (IF strToSymbolTypes(arg.cfg.Exclude).err # ""
                 \/ strToSymbolTypes(arg.cfg.Only).err # ""
              THEN "parsing symbol types"
              ELSE IF InvalidPattern(arg.cfg.Matching)
              THEN "parsing matching regular expression"
              ELSE "parsing exclude matching regular expression")

\* C24 witness: a configuration with full docs, a valid Matching and an
\* invalid ExcludeMatching pattern has been answered with the error that
\* names the exclude pattern.
C24_Witness ==
    /\ pc = "returned" /\ arg.fn = "ParserOptsFromCfg"
    /\ arg.cfg.FullDocs
    /\ arg.cfg.Matching = <<"^", "A">>
    /\ InvalidPattern(arg.cfg.ExcludeMatching)
    /\ out.err = "parsing exclude matching regular expression"
    /\ out.opts = <<>>

\* The command line as flag.Parse reads it: the flags up to the first
\* argument that is no flag or is "--", and the positional arguments after.
IsPositional(a) == a \in {"dir1", "dir2"}

StopAt ==
    IF \E i \in 1..Len(arg.args) : IsPositional(arg.args[i]) \/ arg.args[i] = "--"
    THEN CHOOSE i \in 1..Len(arg.args) :
            /\ IsPositional(arg.args[i]) \/ arg.args[i] = "--"
            /\ \A j \in 1..(i - 1) : ~IsPositional(arg.args[j]) /\ arg.args[j] # "--"
    ELSE Len(arg.args) + 1

GivenFlags == { arg.args[i] : i \in 1..(StopAt - 1) }

Positional ==
    IF StopAt <= Len(arg.args) /\ arg.args[StopAt] = "--"
    THEN SubSeq(arg.args, StopAt + 1, Len(arg.args))
    ELSE SubSeq(arg.args, StopAt, Len(arg.args))

FirstRefused ==
    IF \E i \in 1..(StopAt - 1) : arg.args[i] \in {"-help", "-bogus"}
    THEN CHOOSE i \in 1..(StopAt - 1) :
            /\ arg.args[i] \in {"-help", "-bogus"}
            /\ \A j \in 1..(i - 1) : arg.args[j] \notin {"-help", "-bogus"}
    ELSE 0

HasEmbeddedField ==
    \E k \in 1..Len(dPkg.Types) :
        /\ dPkg.Types[k].Expr.shape = "StructType"
        /\ \E j \in 1..Len(dPkg.Types[k].Expr.Fields) :
              Len(dPkg.Types[k].Expr.Fields[j].Names) = 0

\* C27: IsExported is never evaluated on a symbol without a name during
\* Parser.Package, whatever the filters: leaving aside the sources with a
\* const value expression that is not recognised, every run returns a
\* Package, and so does the run on a struct with an embedded field.
C27_NoExportTestWithoutName ==
    (pc # "ready" /\ ~HasUnrecognisedValue) => pc = "done"

\* C27, the part that holds: a run faults only on a source with an
\* unrecognised const value or with an embedded struct field.
C27_FaultOnlyOnEmbeddedField ==
    (pc = "panic" /\ ~HasUnrecognisedValue) => HasEmbeddedField

\* The functions of the source in the order of the claim: for each type in
\* source order the functions go/doc has put under it, then the top-level
\* functions.
SourceFuncsInOrder ==
    Concat([k \in 1..Len(dPkg.Types) |-> dPkg.Types[k].Funcs]) \o dPkg.Funcs

RetainedFuncsInOrder ==
    SelectSeq(SourceFuncsInOrder, LAMBDA f : Passing(FuncSym(f.Name, FALSE)))

\* C28: when Package returns, Package.Funcs is, for each type in source
\* order, the functions associated with that type that pass the filters,
\* followed by the top-level functions that pass the filters in source
\* order: the subsequence of the source order that the filters leave, each
\* source function at most once.
C28_FuncsOrder ==
    pc = "done" =>
        /\ Len(pkg.Funcs) = Len(RetainedFuncsInOrder)
        /\ \A k \in 1..Len(pkg.Funcs) :
              FuncKey(pkg.Funcs[k]) = FuncKey(parseFunc(parser, RetainedFuncsInOrder[k]).val)

\* C28 witness: two types with functions of their own and a top-level
\* function; Package.Funcs holds three functions or more, not all of one
\* name.
C28_Witness ==
    /\ pc = "done"
    /\ Len(dPkg.Types) = 2
    /\ Len(dPkg.Types[1].Funcs) > 0 /\ Len(dPkg.Types[2].Funcs) > 0
    /\ Len(dPkg.Funcs) > 0
    /\ Len(pkg.Funcs) >= 3
    /\ pkg.Funcs[1].Name # pkg.Funcs[Len(pkg.Funcs)].Name

\* A TypeDef symbol of kind identType with the name given.
PlainAliasSymbol(name) == TypeDefSym(name, "int")

\* C29: a type whose type expression is a bare identifier is offered to
\* the filters with kind identType, whatever the identifier: it is in
\* Package.Types iff the filters accept a symbol of kind identType with its
\* name; and it is rendered as `type Name Underlying`, so the text of a
\* package of nothing but that type is the package clause, a blank line and
\* that line.
C29_PlainAlias ==
    /\ pc \in {"done", "printed"} =>
          \A k \in 1..Len(dPkg.Types) :
              dPkg.Types[k].Expr.shape = "Ident" =>
                  ((\E n \in 1..Len(pkg.Types) : pkg.Types[n].Name = dPkg.Types[k].Name)
                      <=> Passing(PlainAliasSymbol(dPkg.Types[k].Name)))
    /\ (pc = "printed" /\ dPkg \in AliasPackages /\ Len(pkg.Types) = 1) =>
          out = <<"package ", NameString(dPkg.Name), "\n\n",
                  "type ", NameString(dPkg.Types[1].Name), " ", dPkg.Types[1].Expr.Ident,
                  "\n">>

\* C29, the part that holds: the claim for every underlying identifier
\* other than array.
C29_PlainAliasNotArray ==
    /\ pc \in {"done", "printed"} =>
          \A k \in 1..Len(dPkg.Types) :
              (dPkg.Types[k].Expr.shape = "Ident" /\ dPkg.Types[k].Expr.Ident # "array") =>
                  ((\E n \in 1..Len(pkg.Types) : pkg.Types[n].Name = dPkg.Types[k].Name)
                      <=> Passing(PlainAliasSymbol(dPkg.Types[k].Name)))
    /\ (/\ pc = "printed" /\ dPkg \in AliasPackages /\ Len(pkg.Types) = 1
        /\ dPkg.Types[1].Expr.Ident # "array") =>
          out = <<"package ", NameString(dPkg.Name), "\n\n",
                  "type ", NameString(dPkg.Types[1].Name), " ", dPkg.Types[1].Expr.Ident,
                  "\n">>

\* The parser has a kind filter with action Include whose set does not
\* contain structField.
KindIncludeWithoutStructField ==
    \E i \in 1..Len(parser.filters) :
        /\ parser.filters[i].kind = "filterSymbolTypes"
        /\ parser.filters[i].action = Include
        /\ SymbolStructField \notin parser.filters[i].stMap

\* The fields fl are the source fields src, every one of them, in order.
AllKept(fl, src) ==
    /\ Len(fl) = Len(src)
    /\ \A i \in 1..Len(fl) : fl[i].Names = src[i].Names /\ fl[i].Type = src[i].Type

\* C30: under a kind filter with action Include whose set does not contain
\* structField, every struct of Package.Types has an empty Fields list,
\* also when structType is in the set, whereas every function of
\* Package.Funcs has all the parameters and results of its source, every
\* func type all its parameters and results, and every method of a type
\* its receiver and all its parameters and results.
C30_FieldsObeyKindFilter ==
    (pc = "done" /\ KindIncludeWithoutStructField) =>
        /\ \A n \in 1..Len(pkg.Types) :
              pkg.Types[n].Type = "struct" => pkg.Types[n].Fields = <<>>
        /\ Len(pkg.Funcs) = Len(RetainedFuncsInOrder)
        /\ \A k \in 1..Len(pkg.Funcs) :
              /\ AllKept(pkg.Funcs[k].Params, RetainedFuncsInOrder[k].Params)
              /\ AllKept(pkg.Funcs[k].Results, RetainedFuncsInOrder[k].Results)
        /\ Len(pkg.Types) = Len(RetainedTypes)
        /\ \A n \in 1..Len(pkg.Types) :
              /\ RetainedTypes[n].Expr.shape = "FuncType" =>
                    /\ AllKept(pkg.Types[n].Params, RetainedTypes[n].Expr.Params)
                    /\ AllKept(pkg.Types[n].Results, RetainedTypes[n].Expr.Results)
              /\ RetainedTypes[n].Expr.shape # "InterfaceType" =>
                    \A m \in 1..Len(pkg.Types[n].Methods) :
                        \E j \in 1..Len(RetainedTypes[n].Methods) :
                            LET src == RetainedTypes[n].Methods[j]
                                fn == pkg.Types[n].Methods[m]
                            IN  /\ fn.Name = src.Name
                                /\ AllKept(fn.Receiver, src.Recv)
                                /\ AllKept(fn.Params, src.Params)
                                /\ AllKept(fn.Results, src.Results)

\* C30 witness: under the Include filter of structType, interfaceType, func
\* and const a struct with two source fields was retained without fields,
\* with a method, and a function was retained with its parameter.
C30_Witness ==
    /\ pc = "done" /\ KindIncludeWithoutStructField
    /\ \E n \in 1..Len(pkg.Types) :
          /\ pkg.Types[n].Type = "struct"
          /\ Len(RetainedTypes) = Len(pkg.Types)
          /\ Len(RetainedTypes[n].Expr.Fields) = 2
          /\ pkg.Types[n].Fields = <<>>
          /\ Len(pkg.Types[n].Methods) > 0
          /\ Len(pkg.Types[n].Methods[1].Receiver) = 1
    /\ Len(pkg.Funcs) > 0
    /\ Len(pkg.Funcs[1].Params) = 1

====
